---- MODULE Spec2Model ----
(***************************************************************************)
(* Model of the vlr.gg scraper's request layer and field extraction        *)
(* (src/scripts/script archive/01_scrape_data.py): RateLimiter,            *)
(* CacheManager, VLRScraper._make_request and _extract_with_selectors.     *)
(*                                                                         *)
(* Time is counted in ticks of 0.1 s, the granularity of the limiter's     *)
(* safety margin.  Every worker thread t has a program counter pc[t].      *)
(***************************************************************************)
EXTENDS Integers, Sequences, FiniteSets, TLC

\* ---------------------------------------------------------------- bounds
NumThreads == 2
MaxCalls == 2
MaxLiveCalls == 1
MaxClock == 5
MaxCap == 2
MaxWindow == 2
MaxTTL == 2
MaxRetries == 2
MaxMatches == 2
MaxFetches == 2
MaxNameWords == 1
MaxWords == 2
MaxLinks == 1
MaxDateTokens == 5
MaxTargets == 2
MaxWorkers == 2
MaxTeamLinks == 3
MaxChildren == 2
MaxBlocks == 2
MaxRun == 16

Threads == 1..NumThreads

\* the "+ 0.1" of the sleep time, one tick
Margin == 1

VARIABLES
    clock,          \* time.time() / datetime.now(), in ticks
    max_requests,   \* RateLimiter.max_requests
    time_window,    \* RateLimiter.time_window
    requests,       \* RateLimiter.requests
    lock,           \* RateLimiter.lock: 0 when free, else the holder
    pc,             \* position of each thread
    now,            \* local `now` of wait_if_needed
    wake,           \* clock value at which time.sleep may return
    slept,          \* whether the current call went through time.sleep
    calls,          \* number of calls each thread has started
    hist,           \* every timestamp ever appended to requests, in order
    ret,            \* where each thread continues when its current call returns
    files,          \* the cache directory: cache path -> file
    cache_duration, \* CacheManager.cache_duration
    curl,           \* url argument of the running cache / request call
    cdata,          \* data argument of the running CacheManager.set
    cat,            \* 'cached_at' computed by the running CacheManager.set
    cres,           \* what the last CacheManager.get of the thread returned
    seen,           \* the file that get found, and the time it looked
    lastSet,        \* per url, the last completed set: its data and cached_at
    unlinked,       \* per thread, whether the file it holds open for writing
                    \* has been unlinked since it opened it
    retry_attempts, \* VLRScraper.retry_attempts
    use_cache,      \* use_cache argument of the running _make_request
    attempts,       \* HTTP attempts issued by the running session.get
    resp,           \* outcome of the last HTTP attempt
    mres,           \* what the last _make_request of the thread did
    logged,         \* whether the running _make_request logged an error
    recAtStart,     \* the limiter's requests, and the thread's count of
                    \* recorded admissions, when its _make_request began
    doc,            \* the parsed document handed to _extract_with_selectors
    selector_key,   \* its selector_key argument
    attribute,      \* its attribute argument
    xres,           \* its outcome
    version,        \* which 01_scrape_data.py runs: the archive or the current
    player_links,   \* the links the roster selector found in the document
    li,             \* how many of them the roster loop has gone through
    roster,         \* the roster list built so far
    team_url,       \* argument of scrape_team_info: the url split at '/'
    soup,           \* what _make_request gave scrape_team_info
    team_data,      \* what scrape_team_info returned
    filepath,       \* what saving team_data returned
    date_elem,      \* soup.select_one('.event-header-date') of an event page
    tournament,     \* what scrape_tournament_info made of it
    team_links,     \* the texts of the team links of the event page, in
                    \* document order
    participating_teams, \* the teams list of the Tournament
    team_urls,      \* argument of scrape_multiple_teams(_parallel)
    env,            \* per target: what its fetch gives, whether its file
                    \* can be written
    max_workers,    \* VLRScraper.max_workers
    futures,        \* per target, the state of its future
    main,           \* where the orchestrating call is
    order,          \* the futures as_completed has yielded or will yield
    processed,      \* how many of them the loop has gone through
    results,        \* the results dict: team name -> saved path
    failed_urls,    \* the failed_urls list
    attempted,      \* per target, the calls of scrape_team_info made for it
    finished,       \* the targets in the order their scrapes completed
    outcomes,       \* per processed target, whether it wrote or failed
    match_elem,     \* a match container: its child elements in document order
    found,          \* the locals opponent, result, score, match_date and
                    \* tournament of the single-match parser after its loops
    match_data,     \* what the single-match parser returned
    page,           \* a team page: its match containers in document order
    match_elements, \* the places in page of the selected containers
    mpc,            \* where the recent-matches parser is
    mi,             \* how many of match_elements the loop has gone through
    recent_matches  \* the list the recent-matches parser is building

rlvars == <<max_requests, time_window, requests, lock, now, wake, slept,
            calls, hist>>

cachevars ==
    <<files, cache_duration, curl, cdata, cat, cres, seen, lastSet, unlinked>>

reqvars == <<retry_attempts, use_cache, attempts, resp, mres, logged,
             recAtStart>>

exvars == <<doc, selector_key, attribute, xres>>

rostervars == <<version, player_links, li, roster>>

teamvars == <<team_url, soup, team_data, filepath>>

tourvars ==
    <<date_elem, tournament, team_links, participating_teams>>

orchvars == <<team_urls, env, max_workers, futures, main, order, processed,
results,
              failed_urls, attempted, finished, outcomes>>

recentvars == <<page, match_elements, mpc, mi, recent_matches>>
matchvars == <<match_elem, found, match_data, recentvars>>

pagevars == <<rostervars, teamvars, tourvars, orchvars, matchvars>>

vars == <<clock, pc, ret, rlvars, cachevars, reqvars, exvars, pagevars>>

\* ------------------------------------------------------------ RateLimiter

\* [req_time for req_time in self.requests if now - req_time < self.time_window]
Prune(reqs, n, tw) == SelectSeq(reqs, LAMBDA r : n - r < tw)

\* an under-sleeping variant: the margin is subtracted and the window cut short
SleepTimeUnder(tw, n, oldest) == tw - (n - oldest) - Margin

\* sleep_time = self.time_window - (now - self.requests[0]) + 0.1
SleepTime(tw, n, oldest) == tw - (n - oldest) + Margin

InCritical == {"prune", "check", "sleep", "append", "release"}

Tick ==
    /\ \/ clock < MaxClock
       \/ \E t \in Threads : pc[t] = "sleep" /\ wake[t] > clock
    /\ clock' = clock + 1
    /\ UNCHANGED <<pc, ret, rlvars, cachevars, reqvars, exvars, pagevars>>

\* a worker calls rate_limiter.wait_if_needed()
Call(t) ==
    /\ pc[t] = "idle"
    /\ calls' = [calls EXCEPT ![t] = @ + 1]
    /\ slept' = [slept EXCEPT ![t] = FALSE]
    /\ pc' = [pc EXCEPT ![t] = "acquire"]
    /\ ret' = [ret EXCEPT ![t] = "idle"]
    /\ UNCHANGED <<clock, max_requests, time_window, requests, lock, now,
                   wake, hist, cachevars, reqvars, exvars, pagevars>>

\* a variant that enters the block without taking the lock
AcquireUnlocked(t) ==
    /\ pc[t] = "acquire"
    /\ lock' = t
    /\ pc' = [pc EXCEPT ![t] = "prune"]
    /\ UNCHANGED <<clock, ret, max_requests, time_window, requests, now,
                   wake, slept, calls, hist, cachevars, reqvars, exvars, pagevars>>

\* with self.lock:
Acquire(t) ==
    /\ pc[t] = "acquire"
    /\ lock = 0
    /\ lock' = t
    /\ pc' = [pc EXCEPT ![t] = "prune"]
    /\ UNCHANGED <<clock, ret, max_requests, time_window, requests, now,
                   wake, slept, calls, hist, cachevars, reqvars, exvars, pagevars>>

\* now = time.time(); drop the requests outside the window
PruneOld(t) ==
    /\ pc[t] = "prune"
    /\ now' = [now EXCEPT ![t] = clock]
    /\ requests' = Prune(requests, clock, time_window)
    /\ pc' = [pc EXCEPT ![t] = "check"]
    /\ UNCHANGED <<clock, ret, max_requests, time_window, lock, wake, slept,
                   calls, hist, cachevars, reqvars, exvars, pagevars>>

\* if len(self.requests) >= self.max_requests: ... time.sleep(sleep_time)
Check(t) ==
    /\ pc[t] = "check"
    /\ IF /\ Len(requests) >= max_requests
          /\ SleepTime(time_window, now[t], requests[1]) > 0
       THEN /\ wake' = [wake EXCEPT ![t] =
                           clock + SleepTime(time_window, now[t], requests[1])]
            /\ slept' = [slept EXCEPT ![t] = TRUE]
            /\ pc' = [pc EXCEPT ![t] = "sleep"]
       ELSE /\ pc' = [pc EXCEPT ![t] = "append"]
            /\ UNCHANGED <<wake, slept>>
    /\ UNCHANGED <<clock, ret, max_requests, time_window, requests, lock,
                   now, calls, hist, cachevars, reqvars, exvars, pagevars>>

\* time.sleep returns (never early); now = time.time(); prune again
Wake(t) ==
    /\ pc[t] = "sleep"
    /\ clock >= wake[t]
    /\ now' = [now EXCEPT ![t] = clock]
    /\ requests' = Prune(requests, clock, time_window)
    /\ pc' = [pc EXCEPT ![t] = "append"]
    /\ UNCHANGED <<clock, ret, max_requests, time_window, lock, wake, slept,
                   calls, hist, cachevars, reqvars, exvars, pagevars>>

\* self.requests.append(now)
AppendNow(t) ==
    /\ pc[t] = "append"
    /\ requests' = Append(requests, now[t])
    /\ hist' = Append(hist, [ts |-> now[t], by |-> t, slept |-> slept[t]])
    /\ pc' = [pc EXCEPT ![t] = "release"]
    /\ UNCHANGED <<clock, ret, max_requests, time_window, lock, now, wake,
                   slept, calls, cachevars, reqvars, exvars, pagevars>>

\* a variant that returns without releasing the lock
ReleaseKeepsLock(t) ==
    /\ pc[t] = "release"
    /\ pc' = [pc EXCEPT ![t] = ret[t]]
    /\ now' = [now EXCEPT ![t] = 0]
    /\ wake' = [wake EXCEPT ![t] = 0]
    /\ slept' = [slept EXCEPT ![t] = FALSE]
    /\ UNCHANGED <<clock, ret, max_requests, time_window, requests, lock,
                   calls, hist, cachevars, reqvars, exvars, pagevars>>

\* leaving the with block releases the lock; wait_if_needed returns and its
\* locals are gone
Release(t) ==
    /\ pc[t] = "release"
    /\ lock' = 0
    /\ pc' = [pc EXCEPT ![t] = ret[t]]
    /\ now' = [now EXCEPT ![t] = 0]
    /\ wake' = [wake EXCEPT ![t] = 0]
    /\ slept' = [slept EXCEPT ![t] = FALSE]
    /\ UNCHANGED <<clock, ret, max_requests, time_window, requests, calls,
                   hist, cachevars, reqvars, exvars, pagevars>>


\* ----------------------------------------------------------- CacheManager

URLs == {"u1", "u2"}

Htmls == {"<a>", "<b>"}

\* the dicts handed to set: {} and {'html': h}
EmptyDict == [keys |-> {}, html |-> ""]

HtmlDict(h) == [keys |-> {"html"}, html |-> h]

Payloads == {EmptyDict} \cup {HtmlDict(h) : h \in Htmls}

\* a variant that sends every url to one file
CachePathCollides(url) == <<"md5", "u1", ".json">>

\* self.cache_dir / f"{md5(url)}.json": one file name per url
CachePath(url) == <<"md5", url, ".json">>

Paths == {CachePath(u) : u \in URLs}

\* datetime.now().isoformat(): a string that fromisoformat reads back
IsoFormat(n) == [tag |-> "iso", val |-> n]

\* a string that is no ISO date, and a JSON number in place of the string
TextStamp == [tag |-> "text", val |-> 0]

NumStamp == [tag |-> "num", val |-> 0]

AllKeys == {"cached_at", "url", "data"}

NoFile ==
    [exists |-> FALSE, decodable |-> FALSE, keys |-> {},
     cached_at |-> IsoFormat(0), data |-> EmptyDict]

\* an empty or truncated file: json.load raises JSONDecodeError on it
Garbage ==
    [exists |-> TRUE, decodable |-> FALSE, keys |-> {},
     cached_at |-> IsoFormat(0), data |-> EmptyDict]

\* cache_data = {'cached_at': ..., 'url': url, 'data': data}
CacheData(at, url, data) == [cached_at |-> at, url |-> url, data |-> data]

\* json.dump(cache_data, f): the text of an object with the three keys
\* (the 'url' value is never read back and is not kept in the model)
JsonDump(obj) ==
    [exists |-> TRUE, decodable |-> TRUE, keys |-> AllKeys,
     cached_at |-> obj.cached_at, data |-> obj.data]

\* a JSON object with the keys ks, as another writer might have left it
JsonObject(ks, at, data) ==
    [exists |-> TRUE, decodable |-> TRUE, keys |-> ks,
     cached_at |-> IF "cached_at" \in ks THEN at ELSE IsoFormat(0),
     data |-> IF "data" \in ks THEN data ELSE EmptyDict]

None == [kind |-> "none", data |-> EmptyDict]

Raised == [kind |-> "raise", data |-> EmptyDict]

Returned(d) == [kind |-> "data", data |-> d]

\* a variant whose expiry test is inverted
GetOutcomeInverted(f, n, ttl) ==
    IF ~f.decodable \/ "cached_at" \notin f.keys \/ f.cached_at.tag = "text"
    THEN [res |-> None, unlink |-> TRUE]
    ELSE IF f.cached_at.tag = "num"
    THEN [res |-> Raised, unlink |-> FALSE]
    ELSE IF n - f.cached_at.val >= ttl
    THEN IF "data" \notin f.keys
         THEN [res |-> None, unlink |-> TRUE]
         ELSE [res |-> Returned(f.data), unlink |-> FALSE]
    ELSE [res |-> None, unlink |-> FALSE]

\* the try block of get and its except clause, on the file f read at time n:
\*   json.load                          JSONDecodeError -> unlink
\*   cached_data['cached_at']           KeyError        -> unlink
\*   datetime.fromisoformat(...)        ValueError      -> unlink
\*                                      TypeError (not a str) -> not caught
\*   if now - cached_time < duration: return cached_data['data']
\*                                      KeyError        -> unlink
\*   return None
GetOutcome(f, n, ttl) ==
    IF ~f.decodable \/ "cached_at" \notin f.keys \/ f.cached_at.tag = "text"
    THEN [res |-> None, unlink |-> TRUE]
    ELSE IF f.cached_at.tag = "num"
    THEN [res |-> Raised, unlink |-> FALSE]
    ELSE IF n - f.cached_at.val < ttl
    THEN IF "data" \notin f.keys
         THEN [res |-> None, unlink |-> TRUE]
         ELSE [res |-> Returned(f.data), unlink |-> FALSE]
    ELSE [res |-> None, unlink |-> FALSE]

\* a client calls cache.get(url)
GetCall(t, u) ==
    /\ pc[t] = "idle"
    /\ curl' = [curl EXCEPT ![t] = u]
    /\ ret' = [ret EXCEPT ![t] = "idle"]
    /\ pc' = [pc EXCEPT ![t] = "get_exists"]
    /\ UNCHANGED <<clock, rlvars, files, cache_duration, cdata, cat, cres,
                   seen, lastSet, unlinked, reqvars, exvars, pagevars>>

\* if not cache_path.exists(): return None
GetExists(t) ==
    /\ pc[t] = "get_exists"
    /\ LET f == files[CachePath(curl[t])] IN
         /\ seen' = [seen EXCEPT ![t] = [file |-> f, at |-> clock]]
         /\ IF f.exists
            THEN /\ pc' = [pc EXCEPT ![t] = "get_read"]
                 /\ UNCHANGED cres
            ELSE /\ pc' = [pc EXCEPT ![t] = "get_done"]
                 /\ cres' = [cres EXCEPT ![t] = None]
    /\ UNCHANGED <<clock, ret, rlvars, files, cache_duration, curl, cdata,
                   cat, lastSet, unlinked, reqvars, exvars, pagevars>>

\* cache_path.unlink(missing_ok=True) removes the name; a thread that has
\* the file open for writing keeps writing to a file without a name
Unlink(p) ==
    /\ files' = [files EXCEPT ![p] = NoFile]
    /\ unlinked' = [w \in Threads |->
                       IF pc[w] = "set_dump" /\ CachePath(curl[w]) = p
                       THEN TRUE ELSE unlinked[w]]

\* open and load the file, test its age, unlink it in the except clause
\* (open on a file that vanished raises FileNotFoundError, which is not caught)
GetRead(t) ==
    /\ pc[t] = "get_read"
    /\ LET p == CachePath(curl[t])
           f == files[p]
           o == GetOutcome(f, clock, cache_duration)
       IN  /\ seen' = [seen EXCEPT ![t] = [file |-> f, at |-> clock]]
           /\ IF f.exists
              THEN /\ cres' = [cres EXCEPT ![t] = o.res]
                   /\ IF o.unlink THEN Unlink(p)
                                  ELSE UNCHANGED <<files, unlinked>>
              ELSE /\ cres' = [cres EXCEPT ![t] = Raised]
                   /\ UNCHANGED <<files, unlinked>>
    /\ pc' = [pc EXCEPT ![t] = "get_done"]
    /\ UNCHANGED <<clock, ret, rlvars, cache_duration, curl, cdata, cat,
                   lastSet, reqvars, exvars, pagevars>>

\* get returns to its caller; a client that called it directly drops the
\* result, _make_request keeps it in cached_soup
GetReturn(t) ==
    /\ pc[t] = "get_done"
    /\ pc' = [pc EXCEPT ![t] = ret[t]]
    /\ IF ret[t] = "idle"
       THEN /\ curl' = [curl EXCEPT ![t] = "u1"]
            /\ cres' = [cres EXCEPT ![t] = None]
            /\ seen' = [seen EXCEPT ![t] = [file |-> NoFile, at |-> 0]]
       ELSE UNCHANGED <<curl, cres, seen>>
    /\ UNCHANGED <<clock, ret, rlvars, files, cache_duration, cdata, cat,
                   lastSet, unlinked, reqvars, exvars, pagevars>>

\* a client calls cache.set(url, data)
SetCall(t, u, d) ==
    /\ pc[t] = "idle"
    /\ curl' = [curl EXCEPT ![t] = u]
    /\ cdata' = [cdata EXCEPT ![t] = d]
    /\ ret' = [ret EXCEPT ![t] = "idle"]
    /\ pc' = [pc EXCEPT ![t] = "set_build"]
    /\ UNCHANGED <<clock, rlvars, files, cache_duration, cat, cres, seen,
                   lastSet, unlinked, reqvars, exvars, pagevars>>

\* cache_data = {'cached_at': datetime.now().isoformat(), ...}
SetBuild(t) ==
    /\ pc[t] = "set_build"
    /\ cat' = [cat EXCEPT ![t] = IsoFormat(clock)]
    /\ pc' = [pc EXCEPT ![t] = "set_open"]
    /\ UNCHANGED <<clock, ret, rlvars, files, cache_duration, curl, cdata,
                   cres, seen, lastSet, unlinked, reqvars, exvars, pagevars>>

\* open(cache_path, 'w') creates the file or truncates it
SetOpen(t) ==
    /\ pc[t] = "set_open"
    /\ files' = [files EXCEPT ![CachePath(curl[t])] = Garbage]
    /\ unlinked' = [unlinked EXCEPT ![t] = FALSE]
    /\ pc' = [pc EXCEPT ![t] = "set_dump"]
    /\ UNCHANGED <<clock, ret, rlvars, cache_duration, curl, cdata, cat,
                   cres, seen, lastSet, reqvars, exvars, pagevars>>

\* json.dump(cache_data, f, ...) and the close of the file; the text goes
\* to the file that was opened, which is lost when it has no name any more
SetDump(t) ==
    /\ pc[t] = "set_dump"
    /\ files' = IF unlinked[t] THEN files
                ELSE [files EXCEPT ![CachePath(curl[t])] =
                         JsonDump(CacheData(cat[t], curl[t], cdata[t]))]
    /\ unlinked' = [unlinked EXCEPT ![t] = FALSE]
    /\ lastSet' = [lastSet EXCEPT ![curl[t]] =
                      [done |-> TRUE, data |-> cdata[t], at |-> cat[t].val]]
    /\ pc' = [pc EXCEPT ![t] = "set_done"]
    /\ UNCHANGED <<clock, ret, rlvars, cache_duration, curl, cdata, cat,
                   cres, seen, reqvars, exvars, pagevars>>

\* set returns to its caller, its arguments and locals are gone
SetReturn(t) ==
    /\ pc[t] = "set_done"
    /\ pc' = [pc EXCEPT ![t] = ret[t]]
    /\ cdata' = [cdata EXCEPT ![t] = EmptyDict]
    /\ cat' = [cat EXCEPT ![t] = IsoFormat(0)]
    /\ curl' = [curl EXCEPT ![t] = IF ret[t] = "idle" THEN "u1" ELSE @]
    /\ UNCHANGED <<clock, ret, rlvars, files, cache_duration, cres, seen,
                   lastSet, unlinked, reqvars, exvars, pagevars>>


\* ------------------------------------------------ VLRScraper._make_request

Statuses == {200, 404, 429, 500, 502, 503, 504}

\* a forcelist that leaves 503 out
StatusForcelistShort == {429, 500, 502, 504}

\* Retry(..., status_forcelist=[429, 500, 502, 503, 504])
StatusForcelist == {429, 500, 502, 503, 504}

NoResp == [kind |-> "none", status |-> 0, body |-> ""]

\* what one HTTP attempt can come back with: a connection failure, a timeout,
\* or a response with a status (and a body when the status is 200)
Responses ==
    {[kind |-> k, status |-> 0, body |-> ""] : k \in {"conn_error", "timeout"}}
    \cup {[kind |-> "status", status |-> c, body |-> ""] :
             c \in Statuses \ {200}}
    \cup {[kind |-> "status", status |-> 200, body |-> h] : h \in Htmls}

\* the failures the mounted Retry policy retries a GET for: connection and
\* read errors, and the statuses of the forcelist
Retryable(r) ==
    \/ r.kind \in {"conn_error", "timeout"}
    \/ r.kind = "status" /\ r.status \in StatusForcelist

\* a policy with one retry too many
RetriesLeftOneMore(made, total) == made <= total + 1

\* Retry(total=self.retry_attempts): after `made` attempts, made - 1 retries
\* are used up; another one is allowed while that is below total
RetriesLeft(made, total) == made <= total

Pending == [kind |-> "pending", html |-> ""]

ReturnedNone == [kind |-> "none", html |-> ""]

Propagated == [kind |-> "raise", html |-> ""]

\* BeautifulSoup(html, 'html.parser')
Soup(h) == [kind |-> "soup", html |-> h]

\* truth value of a dict: non-empty
Truthy(d) == d.keys # {}

NotStarted == [recorded |-> 0, requests |-> <<>>]

Recorded(t) == Cardinality({i \in 1..Len(hist) : hist[i].by = t})

\* a worker calls _make_request(url, use_cache); with use_cache the cache is
\* looked up first, otherwise the rate limiter is called
MrCall(t, u, uc) ==
    /\ pc[t] = "idle"
    /\ calls' = [calls EXCEPT ![t] = @ + 1]
    /\ curl' = [curl EXCEPT ![t] = u]
    /\ use_cache' = [use_cache EXCEPT ![t] = uc]
    /\ attempts' = [attempts EXCEPT ![t] = 0]
    /\ resp' = [resp EXCEPT ![t] = NoResp]
    /\ mres' = [mres EXCEPT ![t] = Pending]
    /\ logged' = [logged EXCEPT ![t] = FALSE]
    /\ recAtStart' = [recAtStart EXCEPT ![t] =
                         [recorded |-> Recorded(t), requests |-> requests]]
    /\ slept' = [slept EXCEPT ![t] = FALSE]
    /\ IF uc
       THEN /\ pc' = [pc EXCEPT ![t] = "get_exists"]
            /\ ret' = [ret EXCEPT ![t] = "mr_cached"]
       ELSE /\ pc' = [pc EXCEPT ![t] = "acquire"]
            /\ ret' = [ret EXCEPT ![t] = "mr_fetch"]
    /\ UNCHANGED <<clock, max_requests, time_window, requests, lock, now,
                   wake, hist, files, cache_duration, cdata, cat, cres, seen,
                   lastSet, unlinked, retry_attempts, exvars, pagevars>>

\* a variant that goes through the rate limiter on a cache hit as well
MrCachedThroughLimiter(t) ==
    /\ pc[t] = "mr_cached"
    /\ IF cres[t].kind = "raise"
       THEN /\ mres' = [mres EXCEPT ![t] = Propagated]
            /\ pc' = [pc EXCEPT ![t] = "mr_done"]
            /\ UNCHANGED ret
       ELSE /\ pc' = [pc EXCEPT ![t] = "acquire"]
            /\ IF cres[t].kind = "data" /\ Truthy(cres[t].data)
               THEN /\ mres' = [mres EXCEPT ![t] = Soup(cres[t].data.html)]
                    /\ ret' = [ret EXCEPT ![t] = "mr_done"]
               ELSE /\ ret' = [ret EXCEPT ![t] = "mr_fetch"]
                    /\ UNCHANGED mres
    /\ UNCHANGED <<clock, rlvars, cachevars, retry_attempts, use_cache,
                   attempts, resp, logged, recAtStart, exvars, pagevars>>

\* cached_soup = self.cache.get(url) has returned (or raised: the call is
\* outside the try block); if cached_soup: return BeautifulSoup(...);
\* otherwise self.rate_limiter.wait_if_needed()
MrCached(t) ==
    /\ pc[t] = "mr_cached"
    /\ IF cres[t].kind = "raise"
       THEN /\ mres' = [mres EXCEPT ![t] = Propagated]
            /\ pc' = [pc EXCEPT ![t] = "mr_done"]
            /\ UNCHANGED ret
       ELSE IF cres[t].kind = "data" /\ Truthy(cres[t].data)
       THEN /\ mres' = [mres EXCEPT ![t] = Soup(cres[t].data.html)]
            /\ pc' = [pc EXCEPT ![t] = "mr_done"]
            /\ UNCHANGED ret
       ELSE /\ pc' = [pc EXCEPT ![t] = "acquire"]
            /\ ret' = [ret EXCEPT ![t] = "mr_fetch"]
            /\ UNCHANGED mres
    /\ UNCHANGED <<clock, rlvars, cachevars, retry_attempts, use_cache,
                   attempts, resp, logged, recAtStart, exvars, pagevars>>

\* one HTTP attempt of self.session.get(url, timeout=15)
MrFetch(t) ==
    /\ pc[t] = "mr_fetch"
    /\ \E r \in Responses : resp' = [resp EXCEPT ![t] = r]
    /\ attempts' = [attempts EXCEPT ![t] = @ + 1]
    /\ pc' = [pc EXCEPT ![t] = "mr_resp"]
    /\ UNCHANGED <<clock, ret, rlvars, cachevars, retry_attempts, use_cache,
                   mres, logged, recAtStart, exvars, pagevars>>

\* the retry policy and response.raise_for_status(): a retryable failure is
\* retried (after the backoff) while retries are left and ends in RetryError /
\* ConnectionError when they are not; an error status raises HTTPError; a 200
\* is parsed and, with use_cache, handed to self.cache.set(url, {'html': ...})
MrResp(t) ==
    /\ pc[t] = "mr_resp"
    /\ IF Retryable(resp[t])
       THEN /\ pc' = [pc EXCEPT ![t] =
                         IF RetriesLeft(attempts[t], retry_attempts)
                         THEN "mr_fetch" ELSE "mr_except"]
            /\ UNCHANGED <<ret, cdata>>
       ELSE IF resp[t].status >= 400
       THEN /\ pc' = [pc EXCEPT ![t] = "mr_except"]
            /\ UNCHANGED <<ret, cdata>>
       ELSE IF use_cache[t]
       THEN /\ cdata' = [cdata EXCEPT ![t] = HtmlDict(resp[t].body)]
            /\ ret' = [ret EXCEPT ![t] = "mr_ok"]
            /\ pc' = [pc EXCEPT ![t] = "set_build"]
       ELSE /\ pc' = [pc EXCEPT ![t] = "mr_ok"]
            /\ UNCHANGED <<ret, cdata>>
    /\ UNCHANGED <<clock, rlvars, files, cache_duration, curl, cat, cres,
                   seen, lastSet, unlinked, reqvars, exvars, pagevars>>

\* return soup
MrOk(t) ==
    /\ pc[t] = "mr_ok"
    /\ mres' = [mres EXCEPT ![t] = Soup(resp[t].body)]
    /\ pc' = [pc EXCEPT ![t] = "mr_done"]
    /\ UNCHANGED <<clock, ret, rlvars, cachevars, retry_attempts, use_cache,
                   attempts, resp, logged, recAtStart, exvars, pagevars>>

\* except requests.exceptions.RequestException: logger.error(...); return None
MrExcept(t) ==
    /\ pc[t] = "mr_except"
    /\ logged' = [logged EXCEPT ![t] = TRUE]
    /\ mres' = [mres EXCEPT ![t] = ReturnedNone]
    /\ pc' = [pc EXCEPT ![t] = "mr_done"]
    /\ UNCHANGED <<clock, ret, rlvars, cachevars, retry_attempts, use_cache,
                   attempts, resp, recAtStart, exvars, pagevars>>

\* _make_request is back in its caller, its arguments and locals are gone
MrReturn(t) ==
    /\ pc[t] = "mr_done"
    /\ pc' = [pc EXCEPT ![t] = "idle"]
    /\ ret' = [ret EXCEPT ![t] = "idle"]
    /\ curl' = [curl EXCEPT ![t] = "u1"]
    /\ cres' = [cres EXCEPT ![t] = None]
    /\ seen' = [seen EXCEPT ![t] = [file |-> NoFile, at |-> 0]]
    /\ use_cache' = [use_cache EXCEPT ![t] = FALSE]
    /\ attempts' = [attempts EXCEPT ![t] = 0]
    /\ resp' = [resp EXCEPT ![t] = NoResp]
    /\ mres' = [mres EXCEPT ![t] = Pending]
    /\ logged' = [logged EXCEPT ![t] = FALSE]
    /\ recAtStart' = [recAtStart EXCEPT ![t] = NotStarted]
    /\ now' = [now EXCEPT ![t] = 0]
    /\ wake' = [wake EXCEPT ![t] = 0]
    /\ slept' = [slept EXCEPT ![t] = FALSE]
    /\ UNCHANGED <<clock, max_requests, time_window, requests, lock, calls,
                   hist, files, cache_duration, cdata, cat, lastSet, unlinked,
                   retry_attempts, exvars, pagevars>>


\* ---------------------------------------- VLRScraper._extract_with_selectors

\* self.selectors, the table of _load_selector_config
SelectorConfig ==
    [team_name |-> <<"h1.wf-title", "h1.team-header-name", ".team-header-name",
                     "h1[class*=\"title\"]", "h1">>,
     team_logo |-> <<"img.team-header-logo", ".team-header-logo img",
                     ".wf-avatar img", "img[class*=\"logo\"]">>,
     team_region |-> <<".team-header-country", ".flag", "[class*=\"country\"]",
                       "[class*=\"flag\"]", ".team-header-info .flag">>,
     roster_players |-> <<".team-roster-item a[href*=\"/player/\"]",
                          ".roster-item a[href*=\"/player/\"]",
                          "a[href*=\"/player/\"]">>,
     match_elements |-> <<".wf-card", ".match-item", "[class*=\"match\"]",
                          ".mod-color", ".match-list-item">>]

\* the keys a caller may pass: those of the table and one it does not have
SelectorKeys == DOMAIN SelectorConfig \cup {"team_stats"}

\* attribute argument: "" stands for None (text mode)
Attributes == {"", "src", "alt"}

RawTexts == {"", " Team A ", "Unknown ", "N/A"}

AttrValues == {"", "/img/a.png", "https://cdn.vlr.gg/a.png"}

\* get_text(strip=True)
Strip(x) ==
    CASE x = " Team A " -> "Team A"
      [] x = "Unknown " -> "Unknown"
      [] OTHER -> x

\* a variant that compares the text as it stands
LowerIdentity(x) == x

\* str.lower()
Lower(x) ==
    CASE x = "Team A" -> "team a"
      [] x = "Unknown" -> "unknown"
      [] x = "N/A" -> "n/a"
      [] OTHER -> x

\* urljoin(self.base_url, value)
UrlJoin(v) ==
    CASE v = "/img/a.png" -> "https://www.vlr.gg/img/a.png"
      [] v = "" -> "https://www.vlr.gg"
      [] OTHER -> v

\* what soup.select_one(selector) gives: no element, an exception, or the
\* first matching element, with its text and the value element.get(attribute)
\* has for the attribute asked for ("" when it has none)
NoMatch == [kind |-> "none", text |-> "", attr |-> ""]

SelectError == [kind |-> "error", text |-> "", attr |-> ""]

Elements == {[kind |-> "elem", text |-> x, attr |-> a] :
                x \in RawTexts, a \in AttrValues}

XPending == [kind |-> "pending", value |-> ""]

XNone == [kind |-> "none", value |-> ""]

XRaised == [kind |-> "raise", value |-> ""]

XValue(v) == [kind |-> "value", value |-> v]

\* the loop over the selectors, from the i-th on
RECURSIVE Scan(_, _, _, _)
Scan(d, sels, attr, i) ==
    IF i > Len(sels) THEN XNone
    ELSE LET m == d[sels[i]] IN
         IF m.kind # "elem" THEN Scan(d, sels, attr, i + 1)
         ELSE IF attr # ""
         THEN IF m.attr # ""
              THEN XValue(IF attr \in {"src", "href"} THEN UrlJoin(m.attr)
                                                     ELSE m.attr)
              ELSE Scan(d, sels, attr, i + 1)
         ELSE IF Strip(m.text) # ""
                 /\ Lower(Strip(m.text)) \notin {"unknown", "n/a", ""}
         THEN XValue(Strip(m.text))
         ELSE Scan(d, sels, attr, i + 1)

\* a variant that indexes the table, self.selectors[selector_key]
ExtractWithSelectorsStrict(d, key, attr) ==
    IF key \in DOMAIN SelectorConfig
    THEN Scan(d, SelectorConfig[key], attr, 1)
    ELSE XRaised

\* selectors = self.selectors.get(selector_key, []) and the loop
ExtractWithSelectors(d, key, attr) ==
    IF key \in DOMAIN SelectorConfig
    THEN Scan(d, SelectorConfig[key], attr, 1)
    ELSE Scan(d, <<>>, attr, 1)

\* the selectors a document is described over: those of the key, or those of
\* the team name for a key without a list
DocSelectors(key) ==
    LET l == IF key \in DOMAIN SelectorConfig THEN SelectorConfig[key]
             ELSE SelectorConfig["team_name"]
    IN  {l[i] : i \in 1..Len(l)}

\* a caller runs _extract_with_selectors(soup, selector_key, attribute)
Extract ==
    /\ xres.kind = "pending"
    /\ xres' = ExtractWithSelectors(doc, selector_key, attribute)
    /\ UNCHANGED <<clock, pc, ret, rlvars, cachevars, reqvars, doc,
                   selector_key, attribute, pagevars>>

\* ------------------------------------------------------- roster parsing

\* a text is the sequence of its words; these are the words of the text
\* around a player link
Words == {"inactive", "sub", "substitute", "coach", "assistant",
          "performance", "manager", "analyst", "igl"}

\* and these the words of the link text itself
NameWords == {"x", "Zeta", "Inactive"}

\* the sequences of at most n words of W
RECURSIVE TextsOver(_, _)
TextsOver(W, n) ==
    IF n = 0 THEN {<<>>}
    ELSE LET shorter == TextsOver(W, n - 1)
         IN  shorter \cup {Append(x, w) : x \in shorter, w \in W}

\* a variant that leaves the letter case alone
LowerWordIdentity(w) == w

\* str.lower() of a word
LowerWord(w) ==
    CASE w = "Inactive" -> "inactive"
      [] w = "Zeta" -> "zeta"
      [] OTHER -> w

\* str.lower() of a text
LowerText(x) == [i \in 1..Len(x) |-> LowerWord(x[i])]

\* len() of a text: its letters and the blanks between its words
RECURSIVE StrLen(_)
StrLen(x) ==
    IF x = <<>> THEN 0
    ELSE (IF Head(x) = "x" THEN 1 ELSE 4)
         + (IF Len(x) > 1 THEN 1 ELSE 0) + StrLen(Tail(x))

\* a link: its text, and the other strings of the roster item it sits in
Links == {[name |-> n, rest |-> r] :
             n \in TextsOver(NameWords, MaxNameWords),
             r \in TextsOver(Words, MaxWords)}

\* " ".join(parent.stripped_strings).lower()
ContextText(l) == LowerText(l.name \o l.rest)

\* a variant that is content with the first word of the phrase
SearchPhraseFirstWord(w, x) == \E i \in 1..Len(x) : x[i] = w[1]

\* re.search of the phrase w, between word boundaries, in the text x
SearchPhrase(w, x) ==
    \E i \in 1..Len(x) :
       /\ i + Len(w) - 1 <= Len(x)
       /\ \A k \in 1..Len(w) : x[i + k - 1] = w[k]

\* re.search of a pattern, which is a set of alternative phrases
Search(alts, x) == \E w \in alts : SearchPhrase(w, x)

\* a variant of the table with the two-word patterns before 'coach'
role_patterns_specific_first ==
    <<[pattern |-> {<<"inactive">>}, role |-> "inactive"],
      [pattern |-> {<<"sub">>, <<"substitute">>}, role |-> "substitute"],
      [pattern |-> {<<"assistant", "coach">>}, role |-> "assistant coach"],
      [pattern |-> {<<"performance", "coach">>},
       role |-> "performance coach"],
      [pattern |-> {<<"coach">>}, role |-> "coach"],
      [pattern |-> {<<"manager">>}, role |-> "manager"],
      [pattern |-> {<<"analyst">>}, role |-> "analyst"],
      [pattern |-> {<<"igl">>}, role |-> "igl"]>>

\* role_patterns of the archive version, in the order of the dict
role_patterns ==
    <<[pattern |-> {<<"inactive">>}, role |-> "inactive"],
      [pattern |-> {<<"sub">>, <<"substitute">>}, role |-> "substitute"],
      [pattern |-> {<<"coach">>}, role |-> "coach"],
      [pattern |-> {<<"assistant", "coach">>}, role |-> "assistant coach"],
      [pattern |-> {<<"performance", "coach">>},
       role |-> "performance coach"],
      [pattern |-> {<<"manager">>}, role |-> "manager"],
      [pattern |-> {<<"analyst">>}, role |-> "analyst"],
      [pattern |-> {<<"igl">>}, role |-> "igl"]>>

\* a variant of the loop over role_patterns that sets only the role
RECURSIVE DetectRoleOnly(_, _, _)
DetectRoleOnly(name_lower, context_text, i) ==
    IF i > Len(role_patterns)
    THEN [role |-> "active player", status |-> "active"]
    ELSE IF \/ Search(role_patterns[i].pattern, name_lower)
            \/ Search(role_patterns[i].pattern, context_text)
    THEN [role |-> role_patterns[i].role, status |-> "active"]
    ELSE DetectRoleOnly(name_lower, context_text, i + 1)

\* the loop over role_patterns, from the i-th pattern on, with the defaults
\* role = "active player", status = "active"
RECURSIVE DetectRole(_, _, _)
DetectRole(name_lower, context_text, i) ==
    IF i > Len(role_patterns)
    THEN [role |-> "active player", status |-> "active"]
    ELSE IF \/ Search(role_patterns[i].pattern, name_lower)
            \/ Search(role_patterns[i].pattern, context_text)
    THEN [role |-> role_patterns[i].role,
          status |-> IF role_patterns[i].role = "inactive" THEN "inactive"
                     ELSE IF role_patterns[i].role \in {"substitute", "sub"}
                     THEN "substitute"
                     ELSE "active"]
    ELSE DetectRole(name_lower, context_text, i + 1)

\* keyword in text, for the keywords of the current version: the keyword
\* occurs in the joined string, inside a word or across words
InText(w, x) ==
    \E i \in 1..Len(x) :
       /\ i + Len(w) - 1 <= Len(x)
       /\ \A k \in 1..Len(w) :
             \/ x[i + k - 1] = w[k]
             \/ Len(w) = 1 /\ w[k] = "sub" /\ x[i + k - 1] = "substitute"

\* role_keywords of the current version, in the order of the dict
role_keywords ==
    <<[keyword |-> <<"inactive">>, role |-> "inactive"],
      [keyword |-> <<"performance", "coach">>, role |-> "performance coach"],
      [keyword |-> <<"sub">>, role |-> "sub"],
      [keyword |-> <<"coach">>, role |-> "coach"],
      [keyword |-> <<"assistant", "coach">>, role |-> "assistant coach"],
      [keyword |-> <<"manager">>, role |-> "manager"],
      [keyword |-> <<"analyst">>, role |-> "analyst"]>>

\* the loop over role_keywords of the current version
RECURSIVE KeywordRole(_, _)
KeywordRole(role_text, i) ==
    IF i > Len(role_keywords) THEN "active player"
    ELSE IF InText(role_keywords[i].keyword, role_text)
    THEN role_keywords[i].role
    ELSE KeywordRole(role_text, i + 1)

\* role detection of the current version, 'inactive' first
CurrentRole(normalized_name, role_text) ==
    IF \/ InText(<<"inactive">>, normalized_name)
       \/ InText(<<"inactive">>, role_text)
    THEN "inactive"
    ELSE KeywordRole(role_text, 1)

\* the Player the archive version builds for a link
PlayerOf(l) ==
    LET d == DetectRole(LowerText(l.name), ContextText(l), 1)
    IN  [player_name |-> l.name, role |-> d.role, status |-> d.status]

\* the dict the current version builds for a link
PlayerDictOf(l) ==
    [player_name |-> l.name,
     role |-> CurrentRole(LowerText(l.name), ContextText(l))]

\* a link whose text is empty or a single character gives no entry
Skipped(l) == l.name = <<>> \/ StrLen(l.name) < 2

\* one round of the loop over player_links
ParseLink ==
    /\ li < Len(player_links)
    /\ li' = li + 1
    /\ LET l == player_links[li + 1] IN
       roster' = IF Skipped(l) THEN roster
                 ELSE IF version = "archive"
                 THEN Append(roster, PlayerOf(l))
                 ELSE Append(roster, PlayerDictOf(l))
    /\ UNCHANGED <<clock, pc, ret, rlvars, cachevars, reqvars, exvars,
                   version, player_links, teamvars, tourvars, orchvars,
                   matchvars>>

\* ------------------------------------------- scrape_team_info and saving

\* team urls, as team_url.split('/') gives them: one with a two-word slug,
\* one with a one-word slug, one that ends in '/'
TeamUrls ==
    {<<"https:", "", "www.vlr.gg", "team", "42", "some-team">>,
     <<"https:", "", "www.vlr.gg", "team", "2593", "fnatic">>,
     <<"https:", "", "www.vlr.gg", "team", "42", "">>}

\* team_url.split('/')[-1]
LastSegment(url) == url[Len(url)]

\* str.replace('-', ' ')
ReplaceHyphens(x) == IF x = "some-team" THEN "some team" ELSE x

\* str.title()
Title(x) ==
    CASE x = "some team" -> "Some Team"
      [] x = "fnatic" -> "Fnatic"
      [] OTHER -> x

\* the selectors of _extract_team_name of the current version
TeamNameSelectors ==
    <<"h1.wf-title", "h1.team-header-name", ".team-header-name", "h1",
      ".wf-title">>

\* its loop over the selectors, from the i-th on
RECURSIVE ExtractTeamName(_, _)
ExtractTeamName(d, i) ==
    IF i > Len(TeamNameSelectors) THEN XNone
    ELSE LET m == d[TeamNameSelectors[i]] IN
         IF m.kind = "error" THEN XRaised
         ELSE IF /\ m.kind = "elem"
                 /\ Strip(m.text) # ""
                 /\ Strip(m.text) # "Unknown"
         THEN XValue(Strip(m.text))
         ELSE ExtractTeamName(d, i + 1)

\* the selectors a team page is described over
TeamSelectors ==
    DocSelectors("team_name")
    \cup {TeamNameSelectors[i] : i \in 1..Len(TeamNameSelectors)}

SoupNone == [kind |-> "none", doc |-> <<>>]

SoupRaised == [kind |-> "raise", doc |-> <<>>]

SoupOf(d) == [kind |-> "soup", doc |-> d]

TPending == [kind |-> "pending"]

TNone == [kind |-> "none"]

TRaised == [kind |-> "raise"]

\* team_url.split('/')[-1].replace('-', ' ').title()
SlugName(url) == Title(ReplaceHyphens(LastSegment(url)))

\* team_id of the archive version
TeamId(url) == IF Len(url) > 1 THEN LastSegment(url) ELSE "unknown"

\* scrape_team_info(team_url), given what _make_request did; of the record
\* only the name, the id and the url are kept
ScrapeTeamInfoOf(v, url, sp) ==
    IF sp.kind = "raise" THEN TRaised
    ELSE IF sp.kind = "none" THEN TNone
    ELSE LET x == IF v = "archive"
                  THEN ExtractWithSelectors(sp.doc, "team_name", "")
                  ELSE ExtractTeamName(sp.doc, 1)
         IN  IF x.kind = "raise" THEN TNone
             ELSE [kind |-> "team",
                   team_name |-> IF x.kind = "value" THEN x.value
                                 ELSE SlugName(url),
                   team_id |-> IF v = "archive" THEN TeamId(url) ELSE "",
                   team_url |-> url]

\* the two re.sub calls and lower() that turn a name into a file name
CleanName(x) ==
    CASE x = "Team A" -> "team_a"
      [] x = "Some Team" -> "some_team"
      [] x = "Fnatic" -> "fnatic"
      [] x = "N/A" -> "na"
      [] x = "Unknown" -> "unknown"
      [] OTHER -> x

\* f"team_{datetime.now().strftime('%Y%m%d_%H%M%S')}"
StampName(n) == <<"team_", n>>

\* self.raw_data_dir / "teams" / f"{clean_name}.json"
TeamPath(clean_name) == <<"teams", clean_name, ".json">>

FPending == <<"pending">>

\* what a failed save returns: None in the archive version, "" in the current
NoPath == <<>>

\* save_team_data_enhanced(team_data); ok tells whether the file can be
\* written
SaveTeamDataEnhanced(td, n, ok) ==
    IF td.team_name = "" THEN NoPath
    ELSE IF ~ok THEN NoPath
    ELSE IF CleanName(td.team_name) = "" THEN TeamPath(StampName(n))
    ELSE TeamPath(CleanName(td.team_name))

\* save_team_data(team_data) of the current version
SaveTeamData(td, n, ok) ==
    LET clean_name == IF td.team_name \in {"", "unknown_team"}
                      THEN StampName(n)
                      ELSE IF CleanName(td.team_name) = "" THEN StampName(n)
                      ELSE CleanName(td.team_name)
    IN  IF ~ok THEN NoPath ELSE TeamPath(clean_name)

\* scrape_team_info(team_url) returns or raises
ScrapeTeamInfo ==
    /\ team_data = TPending
    /\ team_data' = ScrapeTeamInfoOf(version, team_url, soup)
    /\ UNCHANGED <<clock, pc, ret, rlvars, cachevars, reqvars, exvars,
                   rostervars, team_url, soup, filepath, tourvars,
                   orchvars, matchvars>>

\* the caller saves the record it got
SaveTeam(ok) ==
    /\ team_data.kind = "team"
    /\ filepath = FPending
    /\ filepath' = IF version = "archive"
                   THEN SaveTeamDataEnhanced(team_data, clock, ok)
                   ELSE SaveTeamData(team_data, clock, ok)
    /\ UNCHANGED <<clock, pc, ret, rlvars, cachevars, reqvars, exvars,
                   rostervars, team_url, soup, team_data, tourvars,
                   orchvars, matchvars>>

\* --------------------------------------------------- scrape_tournament_info

\* a date text is a sequence of these pieces: a word, a hyphen, a blank and
\* the en-dash (U+2013)
DateTokens == {"Mar", "-", " ", "en-dash"}

EnDash == "en-dash"

Blank == " "

\* the texts of at most n pieces
RECURSIVE DateTextsOver(_)
DateTextsOver(n) ==
    IF n = 0 THEN {<<>>}
    ELSE LET shorter == DateTextsOver(n - 1)
         IN  shorter \cup {Append(x, w) : x \in shorter, w \in DateTokens}

\* str.strip(): the leading blanks go
RECURSIVE LStrip(_)
LStrip(x) ==
    IF x # <<>> /\ Head(x) = Blank THEN LStrip(Tail(x)) ELSE x

\* and the trailing ones
RECURSIVE RStrip(_)
RStrip(x) ==
    IF x # <<>> /\ x[Len(x)] = Blank
    THEN RStrip(SubSeq(x, 1, Len(x) - 1))
    ELSE x

StripText(x) == RStrip(LStrip(x))

\* str.split(sep): the pieces between the separators, all of them
RECURSIVE Split(_, _)
Split(x, sep) ==
    IF \A i \in 1..Len(x) : x[i] # sep THEN <<x>>
    ELSE LET i == CHOOSE k \in 1..Len(x) :
                     x[k] = sep /\ \A j \in 1..(k - 1) : x[j] # sep
         IN  <<SubSeq(x, 1, i - 1)>> \o Split(SubSeq(x, i + 1, Len(x)), sep)

\* the element the date selector finds, with its get_text(strip=True)
NoDateElem == [kind |-> "none", text |-> <<>>]

DateElems == {[kind |-> "elem", text |-> x] :
                 x \in {y \in DateTextsOver(MaxDateTokens) : StripText(y) = y}}

NoDate == [kind |-> "none", text |-> <<>>]

DateOf(x) == [kind |-> "str", text |-> x]

DPending == [kind |-> "pending", start_date |-> NoDate, end_date |-> NoDate]

\* start_date and end_date of the Tournament, from date_elem
DatesOf(e) ==
    IF e.kind = "elem"
    THEN LET date_text == e.text
             dates == IF \E i \in 1..Len(date_text) : date_text[i] = EnDash
                      THEN Split(date_text, EnDash)
                      ELSE <<date_text>>
         IN  [kind |-> "tournament",
              start_date |-> DateOf(StripText(dates[1])),
              end_date |-> IF Len(dates) > 1 THEN DateOf(StripText(dates[2]))
                           ELSE NoDate]
    ELSE [kind |-> "tournament", start_date |-> NoDate, end_date |-> NoDate]

\* get_text(strip=True) of the team links of an event page
LinkTexts == {"", "A", "B"}

RECURSIVE LinkTextsUpTo(_)
LinkTextsUpTo(n) ==
    IF n = 0 THEN {<<>>}
    ELSE LET shorter == LinkTextsUpTo(n - 1)
         IN  shorter \cup {Append(x, t) : x \in shorter, t \in LinkTexts}

\* a variant that appends every name it meets
RECURSIVE TeamsOfAll(_, _, _)
TeamsOfAll(links, k, teams) ==
    IF k > Len(links) THEN teams
    ELSE TeamsOfAll(links, k + 1,
                    IF links[k] # "" THEN Append(teams, links[k]) ELSE teams)

\* the loop over the team links: teams after the links from the k-th on
RECURSIVE TeamsOf(_, _, _)
TeamsOf(links, k, teams) ==
    IF k > Len(links) THEN teams
    ELSE TeamsOf(links, k + 1,
                 IF /\ links[k] # ""
                    /\ \A a \in 1..Len(teams) : teams[a] # links[k]
                 THEN Append(teams, links[k])
                 ELSE teams)

\* scrape_tournament_info builds the record
ScrapeTournamentInfo ==
    /\ tournament = DPending
    /\ tournament' = DatesOf(date_elem)
    /\ participating_teams' = TeamsOf(team_links, 1, <<>>)
    /\ UNCHANGED <<clock, pc, ret, rlvars, cachevars, reqvars, exvars,
                   rostervars, teamvars, date_elem, team_links, orchvars,
                   matchvars>>

\* ------------------------------------------ scrape_multiple_teams(_parallel)

\* the targets of a run: two urls, and for each target what its fetch gives
\* (nothing, an error that escapes _make_request, a page without a team
\* name, a page with one)
OrchUrls ==
    {<<"https:", "", "www.vlr.gg", "team", "42", "some-team">>,
     <<"https:", "", "www.vlr.gg", "team", "42", "">>}

NoNameDoc == [x \in TeamSelectors |-> NoMatch]

NamedDoc ==
    [x \in TeamSelectors |->
        IF x = "h1" THEN [kind |-> "elem", text |-> " Team A ", attr |-> ""]
        ELSE NoMatch]

OrchPages == {SoupNone, SoupRaised, SoupOf(NoNameDoc), SoupOf(NamedDoc)}

OrchEnvs == {[page |-> pg, ok |-> b] : pg \in OrchPages, b \in BOOLEAN}

\* future.result() of the k-th target: the record, None, or the exception
ResultOf(k) == ScrapeTeamInfoOf(version, team_urls[k], env[k].page)

\* the sequences that list each member of S once
Perms(S) ==
    {f \in [1..Cardinality(S) -> S] :
        \A a, b \in 1..Cardinality(S) : a # b => f[a] # f[b]}

\* a worker of the pool takes the next submitted task
StartTask(k) ==
    /\ version = "archive"
    /\ futures[k] = "pending"
    /\ \A j \in 1..(k - 1) : futures[j] # "pending"
    /\ Cardinality({j \in DOMAIN futures : futures[j] = "running"})
          < max_workers
    /\ futures' = [futures EXCEPT ![k] = "running"]
    /\ attempted' = [attempted EXCEPT ![k] = @ + 1]
    /\ UNCHANGED <<clock, pc, ret, rlvars, cachevars, reqvars, exvars,
                   rostervars, teamvars, tourvars, matchvars, team_urls, env,
                   max_workers, main, order, processed, results, failed_urls,
                   finished, outcomes>>

\* scrape_single_team returns or raises: the future is done
FinishTask(k) ==
    /\ futures[k] = "running"
    /\ futures' = [futures EXCEPT ![k] = "finished"]
    /\ finished' = Append(finished, k)
    /\ order' = IF main = "iterating" THEN Append(order, k) ELSE order
    /\ UNCHANGED <<clock, pc, ret, rlvars, cachevars, reqvars, exvars,
                   rostervars, teamvars, tourvars, matchvars, team_urls, env,
                   max_workers, main, processed, results, failed_urls,
                   attempted,
                   outcomes>>

\* as_completed(future_to_url) is entered: the futures that are done by now
\* are yielded first, in the order of a set; the others as they complete
AsCompleted ==
    /\ version = "archive"
    /\ main = "submitted"
    /\ main' = "iterating"
    /\ order' \in Perms({k \in DOMAIN futures : futures[k] = "finished"})
    /\ UNCHANGED <<clock, pc, ret, rlvars, cachevars, reqvars, exvars,
                   rostervars, teamvars, tourvars, matchvars, team_urls, env,
                   max_workers, futures, processed, results, failed_urls,
                   attempted,
                   finished, outcomes>>

\* a variant of the loop body that records a failed save as a success
ProcessKeepsFailedSave ==
    /\ main = "iterating"
    /\ processed < Len(order)
    /\ processed' = processed + 1
    /\ LET k == order[processed + 1]
           team == ResultOf(k)
       IN  IF team.kind = "team"
           THEN /\ results' = [x \in DOMAIN results \cup {team.team_name} |->
                      IF x = team.team_name
                      THEN SaveTeamDataEnhanced(team, clock, env[k].ok)
                      ELSE results[x]]
                /\ outcomes' = Append(outcomes, "written")
                /\ UNCHANGED failed_urls
           ELSE /\ failed_urls' = Append(failed_urls, team_urls[k])
                /\ outcomes' = Append(outcomes, "failed")
                /\ UNCHANGED results
    /\ UNCHANGED <<clock, pc, ret, rlvars, cachevars, reqvars, exvars,
                   rostervars, teamvars, tourvars, matchvars, team_urls, env,
                   max_workers, futures, main, order, attempted, finished>>

\* one round of the loop over as_completed: the try block and its except
Process ==
    /\ main = "iterating"
    /\ processed < Len(order)
    /\ processed' = processed + 1
    /\ LET k == order[processed + 1]
           team == ResultOf(k)
           path == SaveTeamDataEnhanced(team, clock, env[k].ok)
       IN  IF team.kind = "team" /\ path # NoPath
           THEN /\ results' = [x \in DOMAIN results \cup {team.team_name} |->
                      IF x = team.team_name THEN path ELSE results[x]]
                /\ outcomes' = Append(outcomes, "written")
                /\ UNCHANGED failed_urls
           ELSE /\ failed_urls' = Append(failed_urls, team_urls[k])
                /\ outcomes' = Append(outcomes, "failed")
                /\ UNCHANGED results
    /\ UNCHANGED <<clock, pc, ret, rlvars, cachevars, reqvars, exvars,
                   rostervars, teamvars, tourvars, matchvars, team_urls, env,
                   max_workers, futures, main, order, attempted, finished>>

\* a variant of the sequential loop body without the try block
SeqStepUncaught ==
    /\ version = "current"
    /\ main = "submitted"
    /\ processed < Len(team_urls)
    /\ LET k == processed + 1
           team == ResultOf(k)
           path == SaveTeamData(team, clock, env[k].ok)
       IN  /\ attempted' = [attempted EXCEPT ![k] = @ + 1]
           /\ finished' = Append(finished, k)
           /\ order' = Append(order, k)
           /\ IF team.kind = "raise"
              THEN /\ main' = "aborted"
                   /\ UNCHANGED <<processed, results, outcomes>>
              ELSE /\ main' = main
                   /\ processed' = processed + 1
                   /\ IF team.kind = "team" /\ path # NoPath
                      THEN /\ results' =
                                [x \in DOMAIN results \cup {team.team_name}
                                    |-> IF x = team.team_name THEN path
                                        ELSE results[x]]
                           /\ outcomes' = Append(outcomes, "written")
                      ELSE /\ outcomes' = Append(outcomes, "failed")
                           /\ UNCHANGED results
    /\ UNCHANGED <<clock, pc, ret, rlvars, cachevars, reqvars, exvars,
                   rostervars, teamvars, tourvars, matchvars, team_urls, env,
                   max_workers, futures, failed_urls>>

\* one round of the loop of scrape_multiple_teams, the current version: the
\* try block and its except; it keeps no list of failures
SeqStep ==
    /\ version = "current"
    /\ main = "submitted"
    /\ processed < Len(team_urls)
    /\ processed' = processed + 1
    /\ LET k == processed + 1
           team == ResultOf(k)
           path == SaveTeamData(team, clock, env[k].ok)
       IN  /\ attempted' = [attempted EXCEPT ![k] = @ + 1]
           /\ finished' = Append(finished, k)
           /\ order' = Append(order, k)
           /\ IF team.kind = "team" /\ path # NoPath
              THEN /\ results' = [x \in DOMAIN results \cup {team.team_name}
                                     |-> IF x = team.team_name THEN path
                                         ELSE results[x]]
                   /\ outcomes' = Append(outcomes, "written")
              ELSE /\ outcomes' = Append(outcomes, "failed")
                   /\ UNCHANGED results
    /\ UNCHANGED <<clock, pc, ret, rlvars, cachevars, reqvars, exvars,
                   rostervars, teamvars, tourvars, matchvars, team_urls, env,
                   max_workers, futures, main, failed_urls>>

\* the loop is over and the call returns results
Return ==
    /\ \/ main = "iterating"
       \/ main = "submitted" /\ version = "current"
    /\ processed = Len(team_urls)
    /\ main' = "done"
    /\ UNCHANGED <<clock, pc, ret, rlvars, cachevars, reqvars, exvars,
                   rostervars, teamvars, tourvars, matchvars, team_urls, env,
                   max_workers, futures, order, processed, results,
                   failed_urls,
                   attempted, finished, outcomes>>

\* ------------------------------------------------- single match parsing

\* the classes of the child elements of a match container, and for each the
\* selectors of the single-match parsers it matches
ChildSelectors ==
    [text_of |-> {".text-of"},
     team_name |-> {".team-name", "[class*=\"team\"]:not([class*=\"own\"])",
                    "[class*=\"team\"]"},
     vs_score |-> {".match-item-vs-score", "[class*=\"score\"]"},
     mod_win |-> {".mod-win"},
     item_date |-> {".match-item-date", "[class*=\"date\"]"},
     tz_convert |-> {".moment-tz-convert"},
     item_event |-> {".match-item-event", "[class*=\"event\"]"},
     tournament_name |-> {"[class*=\"tournament\"]"}]

ChildTexts == {"", "VS", "B-2"}

\* the children: class, text, and the title attribute a date element may have
Children ==
    {[cls |-> c, text |-> x, title |-> a] :
        c \in DOMAIN ChildSelectors, x \in ChildTexts, a \in {"", "2h"}}
    \ {ch \in [cls : DOMAIN ChildSelectors, text : ChildTexts,
               title : {"", "2h"}] :
          ch.title # "" /\ ch.cls \notin {"item_date", "tz_convert"}}

\* the containers of at most n children
RECURSIVE MatchElemsUpTo(_)
MatchElemsUpTo(n) ==
    IF n = 0 THEN {<<>>}
    ELSE LET shorter == MatchElemsUpTo(n - 1)
         IN  shorter \cup {Append(x, ch) : x \in shorter, ch \in Children}

\* match_elem.select_one(selector): the place of the first child it matches,
\* 0 when there is none
SelectOne(elem, selector) ==
    IF \E k \in 1..Len(elem) : selector \in ChildSelectors[elem[k].cls]
    THEN CHOOSE k \in 1..Len(elem) :
            /\ selector \in ChildSelectors[elem[k].cls]
            /\ \A j \in 1..(k - 1) : selector \notin ChildSelectors[elem[j].cls]
    ELSE 0

\* str.lower() of a child text
LowerChild(x) == IF x = "VS" THEN "vs" ELSE x

\* an optional string: None is the empty sequence
Some(x) == <<x>>

opponent_selectors ==
    [archive |-> <<".text-of", ".team-name",
                   "[class*=\"team\"]:not([class*=\"own\"])",
                   "a[href*=\"/team/\"]", ".match-item-vs .text-of">>,
     current |-> <<".text-of", ".team-name", "[class*=\"team\"]",
                   "a[href*=\"/team\"]">>]

score_selectors ==
    [archive |-> <<".match-item-vs-score", "[class*=\"score\"]", ".mod-win",
                   ".mod-loss", ".match-item-eta">>,
     current |-> <<".match-item-vs-score", "[class*=\"score\"]", ".mod-win",
                   ".mod-loss">>]

date_selectors ==
    [archive |-> <<".match-item-date", "[class*=\"date\"]",
                   ".moment-tz-convert", "[data-time-to-show]">>,
     current |-> <<".match-item-date", "[class*=\"date\"]",
                   ".moment-tz-convert">>]

tournament_selectors ==
    [archive |-> <<".match-item-event", "[class*=\"tournament\"]",
                   "[class*=\"event\"]">>,
     current |-> <<>>]

\* the opponent loop of the archive version: it goes on after a text that is
\* empty or 'vs' / 'versus'
RECURSIVE OpponentScan(_, _)
OpponentScan(elem, n) ==
    IF n > Len(opponent_selectors.archive) THEN <<>>
    ELSE LET k == SelectOne(elem, opponent_selectors.archive[n]) IN
         IF /\ k # 0
            /\ elem[k].text # ""
            /\ LowerChild(elem[k].text) \notin {"vs", "versus"}
         THEN Some(elem[k].text)
         ELSE OpponentScan(elem, n + 1)

\* the loops that stop at the first selector that matches an element; what
\* is taken of the element is given by take
RECURSIVE FirstElement(_, _, _)
FirstElement(elem, sels, n) ==
    IF n > Len(sels) THEN 0
    ELSE IF SelectOne(elem, sels[n]) # 0 THEN SelectOne(elem, sels[n])
    ELSE FirstElement(elem, sels, n + 1)

\* ':' in text or '-' in text
LikelyScore(x) == x = "B-2"

\* the locals after the loops of the single-match parser
FieldsOf(v, elem) ==
    LET o == FirstElement(elem, opponent_selectors[v], 1)
        r == FirstElement(elem, score_selectors[v], 1)
        d == FirstElement(elem, date_selectors[v], 1)
        t == FirstElement(elem, tournament_selectors[v], 1)
    IN  [opponent |-> IF v = "archive" THEN OpponentScan(elem, 1)
                      ELSE IF o = 0 THEN <<>> ELSE Some(elem[o].text),
         result |-> IF r = 0 THEN <<>>
                    ELSE IF v = "archive" /\ elem[r].text = "" THEN <<>>
                    ELSE Some(elem[r].text),
         score |-> IF v = "archive" /\ r # 0 /\ LikelyScore(elem[r].text)
                   THEN Some(elem[r].text) ELSE <<>>,
         match_date |-> IF d = 0 THEN <<>>
                        ELSE IF v = "archive" /\ elem[d].title # ""
                        THEN Some(elem[d].title)
                        ELSE Some(elem[d].text),
         tournament |-> IF t = 0 THEN <<>> ELSE Some(elem[t].text)]

\* truth value of an optional string
Falsy(x) == x = <<>> \/ x = Some("")

NoRecord == [kind |-> "none"]

\* a variant that leaves a missing field empty
MatchOfBare(f) ==
    IF Falsy(f.opponent) /\ Falsy(f.result) THEN NoRecord
    ELSE [kind |-> "match",
          opponent |-> IF f.opponent = <<>> THEN "" ELSE f.opponent[1],
          result |-> IF f.result = <<>> THEN "" ELSE f.result[1],
          score |-> f.score, date |-> f.match_date,
          tournament |-> f.tournament]

\* the Match (or dict) built from the locals, or None
MatchOf(f) ==
    IF Falsy(f.opponent) /\ Falsy(f.result) THEN NoRecord
    ELSE [kind |-> "match",
          opponent |-> IF Falsy(f.opponent) THEN "Unknown" ELSE f.opponent[1],
          result |-> IF Falsy(f.result) THEN "Unknown" ELSE f.result[1],
          score |-> f.score, date |-> f.match_date,
          tournament |-> f.tournament]

NoFields == [opponent |-> <<>>, result |-> <<>>, score |-> <<>>,
             match_date |-> <<>>, tournament |-> <<>>]

\* _parse_single_match_enhanced / _parse_single_team_match on match_elem
ParseSingleMatch ==
    /\ match_data = [kind |-> "pending"]
    /\ found' = FieldsOf(version, match_elem)
    /\ match_data' = MatchOf(FieldsOf(version, match_elem))
    /\ UNCHANGED <<clock, pc, ret, rlvars, cachevars, reqvars, exvars,
                   rostervars, teamvars, tourvars, orchvars, match_elem,
                   recentvars>>

\* ------------------------------------------------- recent matches

\* the classes of the containers of a team page, and for each the
\* match-container selectors it matches
ContainerSelectors ==
    [wf_card |-> {".wf-card"},
     match_item |-> {".match-item", "[class*=\"match\"]"},
     mod_color |-> {".mod-color"},
     match_list_item |-> {"[class*=\"match\"]", ".match-list-item"}]

match_selectors ==
    [archive |-> <<".wf-card", ".match-item", "[class*=\"match\"]",
                   ".mod-color", ".match-list-item">>,
     current |-> <<".wf-card", ".match-item", "[class*=\"match\"]",
                   ".mod-color">>]

\* how many of the selected containers are parsed
MatchCap == [archive |-> 15, current |-> 10]

\* what a container holds: nothing, or an opponent
MatchContents ==
    {<<>>, <<[cls |-> "text_of", text |-> "B-2", title |-> ""]>>}

\* a page is written as runs of equal containers
RunLengths == {1, 11, MaxRun}

Runs == [cls : DOMAIN ContainerSelectors, content : MatchContents,
         count : RunLengths]

RECURSIVE RunsUpTo(_)
RunsUpTo(n) ==
    IF n = 0 THEN {<<>>}
    ELSE LET shorter == RunsUpTo(n - 1)
         IN  shorter \cup {Append(x, r) : x \in shorter, r \in Runs}

RECURSIVE Expand(_)
Expand(runs) ==
    IF runs = <<>> THEN <<>>
    ELSE [k \in 1..Head(runs).count |->
             [cls |-> Head(runs).cls, content |-> Head(runs).content]]
         \o Expand(Tail(runs))

\* soup.select(selector): the places of the matching containers, in
\* document order
RECURSIVE Select(_, _, _)
Select(pg, selector, k) ==
    IF k > Len(pg) THEN <<>>
    ELSE IF selector \in ContainerSelectors[pg[k].cls]
    THEN <<k>> \o Select(pg, selector, k + 1)
    ELSE Select(pg, selector, k + 1)

\* a variant that gathers the containers of every selector
RECURSIVE MatchElementsMerged(_, _, _)
MatchElementsMerged(pg, sels, n) ==
    IF n > Len(sels) THEN <<>>
    ELSE Select(pg, sels[n], 1) \o MatchElementsMerged(pg, sels, n + 1)

\* the selection loop: the containers of the first selector that has any
RECURSIVE MatchElements(_, _, _)
MatchElements(pg, sels, n) ==
    IF n > Len(sels) THEN <<>>
    ELSE IF Select(pg, sels[n], 1) # <<>> THEN Select(pg, sels[n], 1)
    ELSE MatchElements(pg, sels, n + 1)

\* match_elements[:cap]
Parsable == IF Len(match_elements) < MatchCap[version]
            THEN Len(match_elements) ELSE MatchCap[version]

SelectMatchElements ==
    /\ mpc = "select"
    /\ match_elements' = MatchElements(page, match_selectors[version], 1)
    /\ mpc' = "loop"
    /\ UNCHANGED <<clock, pc, ret, rlvars, cachevars, reqvars, exvars,
                   rostervars, teamvars, tourvars, orchvars, match_elem,
                   found, match_data, page, mi, recent_matches>>

\* one round of the loop over match_elements[:cap]; a record is listed with
\* the place of its container
ParseNextMatch ==
    /\ mpc = "loop"
    /\ mi < Parsable
    /\ mi' = mi + 1
    /\ LET at == match_elements[mi + 1]
           data == MatchOf(FieldsOf(version, page[at].content))
       IN  recent_matches' =
               IF data.kind = "match"
               THEN Append(recent_matches, [elem |-> at, data |-> data])
               ELSE recent_matches
    /\ UNCHANGED <<clock, pc, ret, rlvars, cachevars, reqvars, exvars,
                   rostervars, teamvars, tourvars, orchvars, match_elem,
                   found, match_data, page, match_elements, mpc>>

ReturnMatches ==
    /\ mpc = "loop"
    /\ mi = Parsable
    /\ mpc' = "done"
    /\ UNCHANGED <<clock, pc, ret, rlvars, cachevars, reqvars, exvars,
                   rostervars, teamvars, tourvars, orchvars, match_elem,
                   found, match_data, page, match_elements, mi,
                   recent_matches>>

\* ------------------------------------------------------ initial conditions

IdleThreads ==
    /\ clock = 0
    /\ pc = [t \in Threads |-> "idle"]
    /\ ret = [t \in Threads |-> "idle"]

IdleLimiter ==
    /\ requests = <<>>
    /\ lock = 0
    /\ now = [t \in Threads |-> 0]
    /\ wake = [t \in Threads |-> 0]
    /\ slept = [t \in Threads |-> FALSE]
    /\ calls = [t \in Threads |-> 0]
    /\ hist = <<>>

IdleCache ==
    /\ curl = [t \in Threads |-> "u1"]
    /\ cdata = [t \in Threads |-> EmptyDict]
    /\ cat = [t \in Threads |-> IsoFormat(0)]
    /\ cres = [t \in Threads |-> None]
    /\ seen = [t \in Threads |-> [file |-> NoFile, at |-> 0]]
    /\ lastSet = [u \in URLs |-> [done |-> FALSE, data |-> EmptyDict, at |-> 0]]
    /\ unlinked = [t \in Threads |-> FALSE]

IdleRequest ==
    /\ use_cache = [t \in Threads |-> FALSE]
    /\ attempts = [t \in Threads |-> 0]
    /\ resp = [t \in Threads |-> NoResp]
    /\ mres = [t \in Threads |-> Pending]
    /\ logged = [t \in Threads |-> FALSE]
    /\ recAtStart = [t \in Threads |-> NotStarted]

NoExtract ==
    /\ doc = [x \in {} |-> NoMatch]
    /\ selector_key = "team_name"
    /\ attribute = ""
    /\ xres = XNone

NoRoster ==
    /\ player_links = <<>>
    /\ li = 0
    /\ roster = <<>>

NoTeam ==
    /\ team_url = <<>>
    /\ soup = SoupNone
    /\ team_data = TNone
    /\ filepath = NoPath

NoTour ==
    /\ date_elem = NoDateElem
    /\ tournament = DatesOf(NoDateElem)
    /\ team_links = <<>>
    /\ participating_teams = <<>>

NoOrch ==
    /\ team_urls = <<>>
    /\ env = <<>>
    /\ max_workers = 1
    /\ futures = <<>>
    /\ main = "done"
    /\ order = <<>>
    /\ processed = 0
    /\ results = <<>>
    /\ failed_urls = <<>>
    /\ attempted = <<>>
    /\ finished = <<>>
    /\ outcomes = <<>>

NoRecent ==
    /\ page = <<>>
    /\ match_elements = <<>>
    /\ mpc = "done"
    /\ mi = 0
    /\ recent_matches = <<>>

NoMatches ==
    /\ match_elem = <<>>
    /\ found = NoFields
    /\ match_data = NoRecord
    /\ NoRecent

NoPage ==
    /\ version = "archive"
    /\ NoRoster
    /\ NoTeam
    /\ NoTour
    /\ NoOrch
    /\ NoMatches

\* files found in the cache directory at start: none, a truncated file, an
\* entry written by set at time 0, and objects another writer left behind
\* (a key missing, a timestamp that is no ISO string or no string at all)
PreExisting ==
    {NoFile, Garbage}
    \cup {JsonDump(CacheData(IsoFormat(0), "u1", d)) : d \in Payloads}
    \cup {JsonObject({"url", "data"}, IsoFormat(0), HtmlDict("<a>")),
          JsonObject({"cached_at", "url"}, IsoFormat(0), EmptyDict),
          JsonObject(AllKeys, TextStamp, HtmlDict("<a>")),
          JsonObject(AllKeys, NumStamp, HtmlDict("<a>"))}

\* ------------------------------------------- the rate limiter, by itself

InitRL ==
    /\ IdleThreads
    /\ max_requests \in 1..MaxCap
    /\ time_window \in 1..MaxWindow
    /\ IdleLimiter
    /\ files = [p \in Paths |-> NoFile]
    /\ cache_duration = 1
    /\ IdleCache
    /\ retry_attempts = 0
    /\ IdleRequest
    /\ NoExtract
    /\ NoPage

NextRL ==
    \/ Tick
    \/ \E t \in Threads : calls[t] < MaxCalls /\ Call(t)
    \/ \E t \in Threads : Acquire(t)
    \/ \E t \in Threads : PruneOld(t)
    \/ \E t \in Threads : Check(t)
    \/ \E t \in Threads : Wake(t)
    \/ \E t \in Threads : AppendNow(t)
    \/ \E t \in Threads : Release(t)

SpecRL == InitRL /\ [][NextRL]_vars

\* the same threads, with the bound on calls of the liveness check
NextRLFair ==
    \/ Tick
    \/ \E t \in Threads : calls[t] < MaxLiveCalls /\ Call(t)
    \/ \E t \in Threads : Acquire(t)
    \/ \E t \in Threads : PruneOld(t)
    \/ \E t \in Threads : Check(t)
    \/ \E t \in Threads : Wake(t)
    \/ \E t \in Threads : AppendNow(t)
    \/ \E t \in Threads : Release(t)

\* The clock advances, a thread inside the block keeps running, and the lock
\* is granted fairly to every thread that keeps asking for it.
FairSpecRL ==
    /\ InitRL
    /\ [][NextRLFair]_vars
    /\ WF_vars(Tick)
    /\ \A t \in Threads :
          /\ SF_vars(Acquire(t))
          /\ WF_vars(PruneOld(t) \/ Check(t) \/ Wake(t) \/ AppendNow(t)
                        \/ Release(t))

\* ------------------------------------------------ the cache, one client

\* the one thread that runs in the single-client specifications
Client == CHOOSE t \in Threads : \A u \in Threads : t <= u

InitCache ==
    /\ IdleThreads
    /\ max_requests = 1
    /\ time_window = 1
    /\ IdleLimiter
    /\ files \in [Paths -> PreExisting]
    /\ cache_duration \in 1..MaxTTL
    /\ IdleCache
    /\ retry_attempts = 0
    /\ IdleRequest
    /\ NoExtract
    /\ NoPage

NextCache ==
    \/ Tick
    \/ \E u \in URLs : GetCall(Client, u)
    \/ GetExists(Client)
    \/ GetRead(Client)
    \/ GetReturn(Client)
    \/ \E u \in URLs, d \in Payloads : SetCall(Client, u, d)
    \/ SetBuild(Client)
    \/ SetOpen(Client)
    \/ SetDump(Client)
    \/ SetReturn(Client)

SpecCache == InitCache /\ [][NextCache]_vars

\* ------------------------------------------- _make_request, one worker

\* the page the worker fetches, again and again
Target == "u1"

InitReq ==
    /\ IdleThreads
    /\ max_requests = 1
    /\ time_window = MaxWindow
    /\ IdleLimiter
    /\ \E f \in PreExisting :
          files = [p \in Paths |-> IF p = CachePath(Target) THEN f ELSE NoFile]
    /\ cache_duration = MaxTTL
    /\ IdleCache
    /\ retry_attempts \in 0..MaxRetries
    /\ IdleRequest
    /\ NoExtract
    /\ NoPage

\* time passes where the worker blocks: between two calls, in time.sleep,
\* and during an HTTP attempt (response time, timeout, backoff)
Elapse ==
    /\ pc[Client] \in {"idle", "sleep", "mr_fetch"}
    /\ Tick

NextReq ==
    \/ Elapse
    \/ \E uc \in BOOLEAN :
          calls[Client] < MaxFetches /\ MrCall(Client, Target, uc)
    \/ GetExists(Client)
    \/ GetRead(Client)
    \/ GetReturn(Client)
    \/ MrCached(Client)
    \/ Acquire(Client)
    \/ PruneOld(Client)
    \/ Check(Client)
    \/ Wake(Client)
    \/ AppendNow(Client)
    \/ Release(Client)
    \/ MrFetch(Client)
    \/ MrResp(Client)
    \/ SetBuild(Client)
    \/ SetOpen(Client)
    \/ SetDump(Client)
    \/ SetReturn(Client)
    \/ MrOk(Client)
    \/ MrExcept(Client)
    \/ MrReturn(Client)

SpecReq == InitReq /\ [][NextReq]_vars

\* ------------------------------------- the cache, a writer and a reader

\* a worker thread that looks entries up while Client writes them
Reader == CHOOSE t \in Threads : t # Client

InitShared ==
    /\ IdleThreads
    /\ max_requests = 1
    /\ time_window = 1
    /\ IdleLimiter
    /\ files = [p \in Paths |-> NoFile]
    /\ cache_duration = MaxTTL
    /\ IdleCache
    /\ retry_attempts = 0
    /\ IdleRequest
    /\ NoExtract
    /\ NoPage

NextShared ==
    \/ Tick
    \/ \E d \in Payloads : SetCall(Client, Target, d)
    \/ SetBuild(Client)
    \/ SetOpen(Client)
    \/ SetDump(Client)
    \/ SetReturn(Client)
    \/ GetCall(Reader, Target)
    \/ GetExists(Reader)
    \/ GetRead(Reader)
    \/ GetReturn(Reader)

SpecShared == InitShared /\ [][NextShared]_vars

\* ------------------------------------------------------ field extraction

InitExtract ==
    /\ IdleThreads
    /\ max_requests = 1
    /\ time_window = 1
    /\ IdleLimiter
    /\ files = [p \in Paths |-> NoFile]
    /\ cache_duration = 1
    /\ IdleCache
    /\ retry_attempts = 0
    /\ IdleRequest
    /\ selector_key \in SelectorKeys
    /\ attribute \in Attributes
    /\ \E M \in {X \in SUBSET DocSelectors(selector_key) :
                     Cardinality(X) <= MaxMatches} :
          \E g \in [M -> Elements \cup {SelectError}] :
             doc = [x \in DocSelectors(selector_key) |->
                       IF x \in M THEN g[x] ELSE NoMatch]
    /\ xres = XPending
    /\ NoPage

NextExtract == Extract

SpecExtract == InitExtract /\ [][NextExtract]_vars

\* --------------------------------------------------- the roster parser

\* the sequences of at most n links
RECURSIVE LinkLists(_)
LinkLists(n) ==
    IF n = 0 THEN {<<>>}
    ELSE LET shorter == LinkLists(n - 1)
         IN  shorter \cup {Append(x, l) : x \in shorter, l \in Links}

InitRoster ==
    /\ IdleThreads
    /\ max_requests = 1
    /\ time_window = 1
    /\ IdleLimiter
    /\ files = [p \in Paths |-> NoFile]
    /\ cache_duration = 1
    /\ IdleCache
    /\ retry_attempts = 0
    /\ IdleRequest
    /\ NoExtract
    /\ version \in {"archive", "current"}
    /\ player_links \in LinkLists(MaxLinks)
    /\ li = 0
    /\ roster = <<>>
    /\ NoTeam
    /\ NoTour
    /\ NoOrch
    /\ NoMatches

NextRoster == ParseLink

SpecRoster == InitRoster /\ [][NextRoster]_vars

\* ------------------------------------------------------ one team page

\* the elements of a team page, of which only the text is read
TeamElements == {e \in Elements : e.attr = ""}

\* the pages with at most MaxMatches selectors that match or fail
TeamDocs ==
    UNION {{[x \in TeamSelectors |-> IF x \in M THEN g[x] ELSE NoMatch] :
               g \in [M -> TeamElements \cup {SelectError}]} :
           M \in {X \in SUBSET TeamSelectors : Cardinality(X) <= MaxMatches}}

InitTeam ==
    /\ IdleThreads
    /\ max_requests = 1
    /\ time_window = 1
    /\ IdleLimiter
    /\ files = [p \in Paths |-> NoFile]
    /\ cache_duration = 1
    /\ IdleCache
    /\ retry_attempts = 0
    /\ IdleRequest
    /\ NoExtract
    /\ NoRoster
    /\ version \in {"archive", "current"}
    /\ team_url \in TeamUrls
    /\ soup \in {SoupNone, SoupRaised} \cup {SoupOf(d) : d \in TeamDocs}
    /\ team_data = TPending
    /\ filepath = FPending
    /\ NoTour
    /\ NoOrch
    /\ NoMatches

NextTeam ==
    \/ ScrapeTeamInfo
    \/ \E ok \in BOOLEAN : SaveTeam(ok)

SpecTeam == InitTeam /\ [][NextTeam]_vars

\* ---------------------------------------------------- one event page

InitTour ==
    /\ IdleThreads
    /\ max_requests = 1
    /\ time_window = 1
    /\ IdleLimiter
    /\ files = [p \in Paths |-> NoFile]
    /\ cache_duration = 1
    /\ IdleCache
    /\ retry_attempts = 0
    /\ IdleRequest
    /\ NoExtract
    /\ version = "archive"
    /\ NoRoster
    /\ NoTeam
    /\ date_elem \in DateElems \cup {NoDateElem}
    /\ tournament = DPending
    /\ team_links \in LinkTextsUpTo(MaxTeamLinks)
    /\ participating_teams = <<>>
    /\ NoOrch
    /\ NoMatches

NextTour == ScrapeTournamentInfo

SpecTour == InitTour /\ [][NextTour]_vars

\* ------------------------------------------------------ the orchestrator

InitOrch ==
    /\ IdleThreads
    /\ max_requests = 1
    /\ time_window = 1
    /\ IdleLimiter
    /\ files = [p \in Paths |-> NoFile]
    /\ cache_duration = 1
    /\ IdleCache
    /\ retry_attempts = 0
    /\ IdleRequest
    /\ NoExtract
    /\ version \in {"archive", "current"}
    /\ NoRoster
    /\ NoTeam
    /\ NoTour
    /\ \E n \in 1..MaxTargets :
          /\ team_urls \in [1..n -> OrchUrls]
          /\ env \in [1..n -> OrchEnvs]
          /\ futures = [k \in 1..n |-> "pending"]
          /\ attempted = [k \in 1..n |-> 0]
    /\ max_workers \in 1..MaxWorkers
    /\ main = "submitted"
    /\ order = <<>>
    /\ processed = 0
    /\ results = <<>>
    /\ failed_urls = <<>>
    /\ finished = <<>>
    /\ outcomes = <<>>
    /\ NoMatches

NextOrch ==
    \/ \E k \in DOMAIN futures : StartTask(k)
    \/ \E k \in DOMAIN futures : FinishTask(k)
    \/ AsCompleted
    \/ Process
    \/ SeqStep
    \/ Return

SpecOrch == InitOrch /\ [][NextOrch]_vars

\* ------------------------------------------------- one match container

InitMatch ==
    /\ IdleThreads
    /\ max_requests = 1
    /\ time_window = 1
    /\ IdleLimiter
    /\ files = [p \in Paths |-> NoFile]
    /\ cache_duration = 1
    /\ IdleCache
    /\ retry_attempts = 0
    /\ IdleRequest
    /\ NoExtract
    /\ version \in {"archive", "current"}
    /\ NoRoster
    /\ NoTeam
    /\ NoTour
    /\ NoOrch
    /\ match_elem \in MatchElemsUpTo(MaxChildren)
    /\ found = NoFields
    /\ match_data = [kind |-> "pending"]
    /\ NoRecent

NextMatch == ParseSingleMatch

SpecMatch == InitMatch /\ [][NextMatch]_vars

\* ------------------------------------------------- the matches of a page

InitRecent ==
    /\ IdleThreads
    /\ max_requests = 1
    /\ time_window = 1
    /\ IdleLimiter
    /\ files = [p \in Paths |-> NoFile]
    /\ cache_duration = 1
    /\ IdleCache
    /\ retry_attempts = 0
    /\ IdleRequest
    /\ NoExtract
    /\ version \in {"archive", "current"}
    /\ NoRoster
    /\ NoTeam
    /\ NoTour
    /\ NoOrch
    /\ match_elem = <<>>
    /\ found = NoFields
    /\ match_data = NoRecord
    /\ page \in {Expand(runs) : runs \in RunsUpTo(MaxBlocks)}
    /\ match_elements = <<>>
    /\ mpc = "select"
    /\ mi = 0
    /\ recent_matches = <<>>

NextRecent ==
    \/ SelectMatchElements
    \/ ParseNextMatch
    \/ ReturnMatches

SpecRecent == InitRecent /\ [][NextRecent]_vars

\* ------------------------------------------------- RateLimiter properties

\* number of recorded admissions in the half-open window (ts - tw, ts]
InWindow(ts) ==
    Cardinality({j \in 1..Len(hist) :
                    ts - time_window < hist[j].ts /\ hist[j].ts <= ts})

\* C1: for every cap >= 1 and every window, under every interleaving of the
\* callers, the window of length time_window that ends at any recorded
\* admission (the trailing window, now - req_time < time_window) holds at
\* most max_requests recorded admission timestamps.
C1_WindowCap ==
    \A i \in 1..Len(hist) : InWindow(hist[i].ts) <= max_requests

\* a caller found the window full, slept and was then admitted
C1_Witness ==
    /\ Len(hist) > max_requests
    /\ hist[Len(hist)].slept
    /\ hist[Len(hist)].ts - hist[1].ts = time_window + Margin

HistTs == [i \in 1..Len(hist) |-> hist[i].ts]

\* C2: prune, check, sleep, re-prune and append are one critical section:
\* at most one thread is inside it (sleeping included) and it holds the lock;
\* requests is always the tail of the recorded admissions, and no admission
\* that is still inside the window has been dropped from it.
C2_CriticalSection ==
    /\ Cardinality({t \in Threads : pc[t] \in InCritical}) <= 1
    /\ \A t \in Threads : pc[t] \in InCritical => lock = t
    /\ Len(requests) <= Len(hist)
    /\ requests = SubSeq(HistTs, Len(hist) - Len(requests) + 1, Len(hist))
    /\ \A i \in 1..Len(hist) :
          clock - hist[i].ts < time_window => i > Len(hist) - Len(requests)

\* one thread sleeps inside the block while another waits for the lock
C2_Witness ==
    \E t \in Threads, u \in Threads :
        /\ pc[t] = "sleep"
        /\ pc[u] = "acquire"
        /\ Len(requests) >= 1

BeforeAppend == {"acquire", "prune", "check", "sleep", "append"}

Expired(sn) ==
    /\ sn.file.exists
    /\ sn.file.decodable
    /\ sn.file.keys = AllKeys
    /\ sn.file.cached_at.tag = "iso"
    /\ sn.at - sn.file.cached_at.val >= cache_duration

\* C5: a get that finds an entry at or past the TTL returns absence and the
\* entry does not exist when the call returns.
C5_ExpiredRemoved ==
    \A t \in Threads :
        pc[t] = "get_done" /\ Expired(seen[t])
        => /\ cres[t] = None
           /\ ~files[CachePath(curl[t])].exists

\* an entry that is undecodable, lacks 'cached_at' or 'data', or whose
\* timestamp is not an ISO string
Corrupt(f) ==
    /\ f.exists
    /\ \/ ~f.decodable
       \/ "cached_at" \notin f.keys
       \/ "data" \notin f.keys
       \/ f.cached_at.tag # "iso"

\* C6: a get that finds a corrupt entry returns absence without raising and
\* the entry does not exist when the call returns.
C6_CorruptRemoved ==
    \A t \in Threads :
        pc[t] = "get_done" /\ Corrupt(seen[t].file)
        => /\ cres[t] = None
           /\ ~files[CachePath(curl[t])].exists

\* ---------------------------------------------- _make_request properties

\* an entry as a cache-enabled fetch writes it, found younger than the TTL
FreshValid(sn) ==
    /\ sn.file.exists
    /\ sn.file.decodable
    /\ sn.file.keys = AllKeys
    /\ sn.file.cached_at.tag = "iso"
    /\ sn.at - sn.file.cached_at.val < cache_duration
    /\ "html" \in sn.file.data.keys

\* the thread is in _make_request and its cache lookup has read the file
AfterLookup(t) ==
    \/ pc[t] = "get_done" /\ ret[t] = "mr_cached"
    \/ pc[t] \in {"mr_cached", "acquire", "prune", "check", "sleep", "append",
                  "release", "mr_fetch", "mr_resp", "set_build", "set_open",
                  "set_dump", "set_done", "mr_ok", "mr_except", "mr_done"}

\* C7: when the lookup of _make_request(url, use_cache=True) finds a valid
\* unexpired entry, the call returns the parsed cached document and never
\* enters the rate limiter or the network: requests is what it was when the
\* call began, no admission is recorded and no HTTP attempt is made.
C7_CacheHitSkipsLimiter ==
    \A t \in Threads :
        use_cache[t] /\ AfterLookup(t) /\ FreshValid(seen[t])
        => /\ pc[t] \in {"get_done", "mr_cached", "mr_done"}
           /\ requests = recAtStart[t].requests
           /\ Recorded(t) = recAtStart[t].recorded
           /\ attempts[t] = 0
           /\ pc[t] = "mr_done" => mres[t] = Soup(seen[t].file.data.html)

\* the second fetch of the page is served from the entry the first one wrote
C7_Witness ==
    /\ pc[Client] = "mr_done"
    /\ use_cache[Client]
    /\ FreshValid(seen[Client])
    /\ calls[Client] = 2
    /\ lastSet[curl[Client]].done
    /\ Len(requests) = 1
    /\ mres[Client] = Soup(lastSet[curl[Client]].data.html)

\* the last HTTP attempt of the call failed
FetchFailed(t) ==
    /\ attempts[t] > 0
    /\ \/ resp[t].kind \in {"conn_error", "timeout"}
       \/ resp[t].kind = "status" /\ resp[t].status >= 400

\* C8: _make_request never propagates an error to its caller, and a call
\* whose fetch failed (network failure, timeout, error status, retries
\* exhausted) returns None and has logged the failure.
C8_NeverPropagates ==
    \A t \in Threads :
        pc[t] = "mr_done"
        => /\ mres[t].kind # "raise"
           /\ FetchFailed(t) => mres[t] = ReturnedNone /\ logged[t]

\* the statuses the claim names as transient
C9_Transient == {429, 500, 502, 503, 504}

\* C9: a fetch makes at most retry_attempts + 1 attempts; a further attempt
\* is only ever pending after a failure that is not a non-transient error
\* status; a fetch that ended on a transient status has used all its
\* retries; and a fetch whose last attempt failed ends in None.
C9_BoundedRetries ==
    \A t \in Threads :
        /\ attempts[t] <= retry_attempts + 1
        /\ pc[t] = "mr_fetch" /\ attempts[t] > 0
           => ~(resp[t].kind = "status" /\ resp[t].status \notin C9_Transient)
        /\ /\ pc[t] \in {"mr_except", "mr_done"}
           /\ resp[t].kind = "status"
           /\ resp[t].status \in C9_Transient
           => attempts[t] = retry_attempts + 1
        /\ pc[t] = "mr_done" /\ FetchFailed(t) => mres[t] = ReturnedNone

\* every attempt of a fetch with at least one retry came back transient
C9_Witness ==
    /\ pc[Client] = "mr_done"
    /\ retry_attempts >= 1
    /\ attempts[Client] = retry_attempts + 1
    /\ resp[Client].kind = "status"
    /\ resp[Client].status \in C9_Transient
    /\ mres[Client] = ReturnedNone

\* --------------------------------------------------- extraction properties

\* C10: when no selector of the field matches an element of the document,
\* and when the field key has no selector list, _extract_with_selectors
\* returns None; it never raises.
C10_NoMatchIsAbsence ==
    xres.kind # "pending"
    => /\ xres.kind # "raise"
       /\ \/ selector_key \notin DOMAIN SelectorConfig
          \/ \A x \in DOMAIN doc : doc[x].kind # "elem"
          => xres = XNone

\* a document none of the field's selectors matches, one selector failing
C10_Witness ==
    /\ xres = XNone
    /\ selector_key \in DOMAIN SelectorConfig
    /\ \A x \in DOMAIN doc : doc[x].kind # "elem"
    /\ \E x \in DOMAIN doc : doc[x].kind = "error"

\* the trimmed texts that are placeholders, in any letter case
PlaceholderTexts == {"", "unknown", "Unknown", "n/a", "N/A"}

\* the i-th selector of the field matches an element with an accepted text
AcceptedAt(i) ==
    LET m == doc[SelectorConfig[selector_key][i]]
    IN  m.kind = "elem" /\ Strip(m.text) \notin PlaceholderTexts

\* C11: in text mode _extract_with_selectors returns the trimmed text of the
\* earliest selector, in list order, whose element has a text that is not
\* empty and not 'unknown' or 'n/a' in any letter case; a selector whose
\* element has a placeholder text does not stop the scan, and without an
\* accepted text the result is None.
C11_EarliestAccepted ==
    /\ xres.kind # "pending"
    /\ attribute = ""
    /\ selector_key \in DOMAIN SelectorConfig
    => LET sels == SelectorConfig[selector_key]
           acc == {i \in 1..Len(sels) : AcceptedAt(i)}
       IN  IF acc = {} THEN xres = XNone
           ELSE \E i \in acc :
                   /\ \A j \in acc : i <= j
                   /\ xres = XValue(Strip(doc[sels[i]].text))

\* an earlier selector matched a placeholder and a later one gave the value
C11_Witness ==
    /\ xres.kind = "value"
    /\ attribute = ""
    /\ selector_key \in DOMAIN SelectorConfig
    /\ \E i, j \in 1..Len(SelectorConfig[selector_key]) :
          /\ i < j
          /\ doc[SelectorConfig[selector_key][i]].kind = "elem"
          /\ Strip(doc[SelectorConfig[selector_key][i]].text)
                \in PlaceholderTexts \ {""}
          /\ AcceptedAt(j)
          /\ xres.value = Strip(doc[SelectorConfig[selector_key][j]].text)

\* --------------------------------------------------------- roster properties

\* the links gone through so far that gave an entry
Entered == {i \in 1..li : ~Skipped(player_links[i])}

\* the place in the roster of the entry of the i-th link
EntryOf(i) == Cardinality({j \in Entered : j <= i})

\* the word w occurs, in any letter case, in the link text or around it
WordOccurs(w, l) ==
    \E k \in 1..Len(l.name \o l.rest) :
       \/ (l.name \o l.rest)[k] = w
       \/ w = "inactive" /\ (l.name \o l.rest)[k] = "Inactive"

\* C12: a link with the word 'inactive' in its name or in its context gets
\* role 'inactive' (and, in the archive version, which has a status, status
\* 'inactive'), whatever other role keywords occur with it.
C12_InactiveFirst ==
    \A i \in Entered :
       WordOccurs("inactive", player_links[i])
       => /\ roster[EntryOf(i)].role = "inactive"
          /\ version = "archive" => roster[EntryOf(i)].status = "inactive"

\* an entry with 'Inactive' in the name and another role keyword around it
C12_Witness ==
    \E i \in Entered :
       /\ \E k \in 1..Len(player_links[i].name) :
             player_links[i].name[k] = "Inactive"
       /\ \E k \in 1..Len(player_links[i].rest) :
             player_links[i].rest[k] \in {"coach", "analyst", "sub"}
       /\ roster[EntryOf(i)].role = "inactive"

\* the words one of which every role pattern of the table needs
RoleWords == {"inactive", "Inactive", "sub", "substitute", "coach",
              "manager", "analyst", "igl"}

\* C13: a link in whose name and context no role pattern of the table
\* matches gets role 'active player' and status 'active'.
C13_DefaultRole ==
    version = "archive"
    => \A i \in Entered :
          (\A w \in RoleWords : ~WordOccurs(w, player_links[i]))
          => /\ roster[EntryOf(i)].role = "active player"
             /\ roster[EntryOf(i)].status = "active"

\* an entry without any role word, but with half of a two-word pattern
C13_Witness ==
    /\ version = "archive"
    /\ \E i \in Entered :
          /\ \A w \in RoleWords : ~WordOccurs(w, player_links[i])
          /\ WordOccurs("assistant", player_links[i])
          /\ roster[EntryOf(i)].role = "active player"

\* C14: the status of every Player of the roster follows from its role:
\* 'inactive' for role 'inactive', 'substitute' for role 'substitute',
\* 'active' for every other role.
C14_StatusFromRole ==
    version = "archive"
    => \A k \in 1..Len(roster) :
          /\ roster[k].role = "inactive" <=> roster[k].status = "inactive"
          /\ roster[k].role = "substitute"
                <=> roster[k].status = "substitute"
          /\ roster[k].role \notin {"inactive", "substitute"}
                => roster[k].status = "active"

\* a roster with a substitute in it
C14_Witness ==
    /\ version = "archive"
    /\ \E k \in 1..Len(roster) :
          roster[k].role = "substitute" /\ roster[k].status = "substitute"

\* ------------------------------------------------------- team properties

\* C15: every team record scrape_team_info returns has a non-empty
\* team_name, whatever the document and the url, a url that ends in '/'
\* included.
C15_NameNeverEmpty ==
    team_data.kind = "team" => team_data.team_name # ""

\* no selector of the team name gives an accepted text on the page
NoNameOnPage ==
    /\ soup.kind = "soup"
    /\ \A i \in 1..Len(SelectorConfig["team_name"]) :
          LET m == soup.doc[SelectorConfig["team_name"][i]]
          IN  m.kind = "elem" => Strip(m.text) \in PlaceholderTexts

\* C16: for a url .../team/<id>/<slug> and a page without an accepted team
\* name, the record of scrape_team_info has the slug, with blanks for
\* hyphens and title-cased, as team_name and the numeric <id> segment as
\* team_id.
C16_SlugNameNumericId ==
    /\ version = "archive"
    /\ team_data.kind = "team"
    /\ NoNameOnPage
    /\ team_url[Len(team_url)] # ""
    => /\ team_url[Len(team_url)] = "some-team"
          => team_data.team_name = "Some Team"
       /\ team_url[Len(team_url)] = "fnatic"
          => team_data.team_name = "Fnatic"
       /\ team_data.team_id = team_url[Len(team_url) - 1]

\* -------------------------------------------------- tournament properties

\* x is the text y without its leading and trailing blanks
Trimmed(x, y) ==
    /\ x = <<>> \/ (x[1] # Blank /\ x[Len(x)] # Blank)
    /\ \E i \in 1..(Len(y) + 1) :
          /\ \A k \in 1..(i - 1) : y[k] = Blank
          /\ i + Len(x) - 1 <= Len(y)
          /\ \A k \in 1..Len(x) : y[i + k - 1] = x[k]
          /\ \A k \in (i + Len(x))..Len(y) : y[k] = Blank

\* the places of the en-dashes in the date text
Dashes == {i \in 1..Len(date_elem.text) : date_elem.text[i] = EnDash}

\* C17: a date text with an en-dash gives start_date = the trimmed text
\* before the first en-dash and end_date = the trimmed text after it; a date
\* text without one gives start_date = the trimmed text and no end_date; a
\* page without a date element gives neither.
C17_DateSplit ==
    tournament.kind = "tournament"
    => /\ date_elem.kind = "none"
          => tournament.start_date = NoDate /\ tournament.end_date = NoDate
       /\ date_elem.kind = "elem" /\ Dashes = {}
          => /\ tournament.start_date.kind = "str"
             /\ Trimmed(tournament.start_date.text, date_elem.text)
             /\ tournament.end_date = NoDate
       /\ date_elem.kind = "elem" /\ Dashes # {}
          => LET i == CHOOSE k \in Dashes : \A j \in Dashes : k <= j
                 t == date_elem.text
             IN  /\ tournament.start_date.kind = "str"
                 /\ Trimmed(tournament.start_date.text, SubSeq(t, 1, i - 1))
                 /\ tournament.end_date.kind = "str"
                 /\ Trimmed(tournament.end_date.text,
                            SubSeq(t, i + 1, Len(t)))

\* ------------------------------------------------- orchestrator properties

\* the k-th target fails: its fetch gives no page or raises, its file cannot
\* be written, or (archive version) its record has no name to save under
Fails(k) ==
    \/ env[k].page.kind # "soup"
    \/ ~env[k].ok
    \/ version = "archive" /\ ResultOf(k).team_name = ""

\* the names the targets that do not fail resolve to
GoodNames(K) == {ResultOf(k).team_name : k \in {j \in K : ~Fails(j)}}

\* C18: whatever targets fail, the orchestrator, parallel or sequential,
\* attempts every target exactly once and never aborts; when it returns, the
\* result map holds the name of every target that did not fail, and nothing
\* else, and as many targets as failed were reported as failures.
C18_AllAttempted ==
    /\ main # "aborted"
    /\ \A k \in DOMAIN attempted : attempted[k] <= 1
    /\ main = "done"
       => /\ \A k \in DOMAIN attempted : attempted[k] = 1
          /\ DOMAIN results = GoodNames(DOMAIN team_urls)
          /\ Cardinality({j \in DOMAIN outcomes : outcomes[j] = "failed"})
                = Cardinality({k \in DOMAIN team_urls : Fails(k)})
          /\ version = "archive"
             => Len(failed_urls)
                   = Cardinality({k \in DOMAIN team_urls : Fails(k)})

\* a finished run of two targets, one of which could not be fetched
C18_Witness ==
    /\ main = "done"
    /\ Len(team_urls) = 2
    /\ \E k \in DOMAIN team_urls :
          /\ env[k].page.kind \in {"none", "raise"}
          /\ \A j \in DOMAIN team_urls \ {k} : ~Fails(j)
    /\ Cardinality(DOMAIN results) = 1

\* the targets the loop of the parallel orchestrator has gone through
Processed == {order[j] : j \in 1..processed}

\* C19: in scrape_multiple_teams_parallel every target the loop has gone
\* through is either in the failure list or has written its entry
\* results[name] = saved path, never both; a target whose scrape succeeded
\* and whose save failed is in the failure list and adds no entry.
C19_FailedOrWritten ==
    version = "archive"
    => /\ Len(outcomes) = processed
       /\ \A j \in 1..processed :
             /\ outcomes[j] = "failed" <=> Fails(order[j])
             /\ outcomes[j] = "failed"
                => \E f \in DOMAIN failed_urls :
                      failed_urls[f] = team_urls[order[j]]
             /\ outcomes[j] = "written"
                => /\ ResultOf(order[j]).team_name \in DOMAIN results
                   /\ results[ResultOf(order[j]).team_name] # NoPath
       /\ Len(failed_urls)
             = Cardinality({j \in 1..processed : outcomes[j] = "failed"})
       /\ DOMAIN results = GoodNames(Processed)

\* a target that was scraped but could not be saved, and is in the list
C19_Witness ==
    /\ version = "archive"
    /\ \E j \in 1..processed :
          /\ ResultOf(order[j]).kind = "team"
          /\ ResultOf(order[j]).team_name # ""
          /\ ~env[order[j]].ok
          /\ outcomes[j] = "failed"
          /\ ResultOf(order[j]).team_name \notin DOMAIN results

\* the place of the target k in the order of completion
FinishedAt(k) == CHOOSE a \in DOMAIN finished : finished[a] = k

\* C20: the parallel orchestrator writes the entries in the order in which
\* the targets completed, so that of two successful targets with the same
\* name the one that completed later has written the entry that stays.
C20_CompletionOrder ==
    version = "archive"
    => \A a, b \in 1..processed :
          a < b => FinishedAt(order[a]) < FinishedAt(order[b])

\* ------------------------------------------------- single match properties

Parsed == match_data.kind # "pending"

\* a child of the container that some selector of the list matches and whose
\* text is not empty
HasText(sels) ==
    \E k \in 1..Len(match_elem), n \in 1..Len(sels) :
        /\ sels[n] \in ChildSelectors[match_elem[k].cls]
        /\ match_elem[k].text # ""

\* C21: a match element yields a record exactly when an opponent or a result
\* was found; the record's opponent and result are never empty, the one that
\* was not found being 'Unknown' and the one that was found being kept
C21_RecordIffFound ==
    Parsed =>
        /\ match_data.kind = "match"
              <=> (~Falsy(found.opponent) \/ ~Falsy(found.result))
        /\ match_data.kind = "match" =>
              /\ match_data.opponent # ""
              /\ match_data.result # ""
              /\ match_data.opponent =
                    (IF Falsy(found.opponent) THEN "Unknown"
                     ELSE found.opponent[1])
              /\ match_data.result =
                    (IF Falsy(found.result) THEN "Unknown"
                     ELSE found.result[1])
              /\ \/ HasText(opponent_selectors[version])
                 \/ HasText(score_selectors[version])
        /\ ~HasText(opponent_selectors[version])
              /\ ~HasText(score_selectors[version])
              => match_data = NoRecord

C21_Witness ==
    /\ Parsed
    /\ match_data.kind = "match"
    /\ match_data.opponent = "Unknown"
    /\ match_data.result = "B-2"
    /\ found.opponent = Some("")

\* the first accepted value of a field: the selectors in order, each one's
\* first element, skipping an element whose value is empty or rejected
RECURSIVE FirstAccepted(_, _, _, _)
FirstAccepted(elem, sels, n, rejected) ==
    IF n > Len(sels) THEN <<>>
    ELSE LET k == SelectOne(elem, sels[n])
             value == IF k = 0 THEN ""
                      ELSE IF elem[k].title # "" THEN elem[k].title
                      ELSE elem[k].text
         IN  IF value # "" /\ value \notin rejected THEN Some(value)
             ELSE FirstAccepted(elem, sels, n + 1, rejected)

\* C24: each of opponent, result, date and tournament of a match element is
\* the first accepted value over the field's selectors in order, an element
\* with an empty or rejected text not ending the search
C24_FallbackWithRejection ==
    Parsed /\ version = "archive" =>
        /\ found.opponent =
              FirstAccepted(match_elem, opponent_selectors.archive, 1,
                            {"VS"})
        /\ found.result =
              FirstAccepted(match_elem, score_selectors.archive, 1, {})
        /\ found.match_date =
              FirstAccepted(match_elem, date_selectors.archive, 1, {})
        /\ found.tournament =
              FirstAccepted(match_elem, tournament_selectors.archive, 1, {})

\* ------------------------------------------------- recent-matches properties

\* the first selector of the list that matches a container of the page
Matches(k, selector) == selector \in ContainerSelectors[page[k].cls]

Winning ==
    {n \in 1..Len(match_selectors[version]) :
        /\ \E k \in 1..Len(page) : Matches(k, match_selectors[version][n])
        /\ \A m \in 1..(n - 1) : \A k \in 1..Len(page) :
              ~Matches(k, match_selectors[version][m])}

\* the containers of the winning selector among its first MatchCap ones
FirstOfWinner ==
    {k \in 1..Len(page) :
        \E n \in Winning :
            /\ Matches(k, match_selectors[version][n])
            /\ Cardinality({j \in 1..k :
                               Matches(j, match_selectors[version][n])})
                  <= MatchCap[version]}

\* C23: the records come from the containers of the first container selector
\* that matches anything and from no other, from the first N of them only
\* (15 in the archive version, 10 in the current one), each of those that
\* holds a match giving one record, in document order
C23_FirstSelectorCapped ==
    mpc = "done" =>
        LET first == FirstOfWinner IN
        /\ Len(recent_matches) <= MatchCap[version]
        /\ \A a \in 1..Len(recent_matches) :
              recent_matches[a].elem \in first
        /\ \A a \in 1..(Len(recent_matches) - 1) :
              recent_matches[a].elem < recent_matches[a + 1].elem
        /\ \A k \in first :
              page[k].content # <<>> =>
                  \E a \in 1..Len(recent_matches) :
                      recent_matches[a].elem = k

\* the winner has more than N containers, all parsed ones give a record, and
\* a later selector has containers of its own
C23_Witness ==
    /\ mpc = "done"
    /\ Len(recent_matches) = MatchCap[version]
    /\ Len(match_elements) > MatchCap[version]
    /\ \E k \in 1..Len(page) : k \notin FirstOfWinner /\ page[k].content # <<>>
    /\ \E k \in 1..Len(page), n \in Winning :
          ~Matches(k, match_selectors[version][n])

\* ------------------------------------------------- participating teams

\* where a name first occurs among the team links
FirstAt(name) ==
    CHOOSE k \in 1..Len(team_links) :
        /\ team_links[k] = name
        /\ \A j \in 1..(k - 1) : team_links[j] # name

\* C22: the teams of a tournament record are the distinct non-empty texts of
\* the team links of the page, each once, in the order in which they first
\* occur
C22_DistinctInOrder ==
    tournament.kind = "tournament" =>
        /\ \A a, b \in 1..Len(participating_teams) :
              a # b => participating_teams[a] # participating_teams[b]
        /\ \A a \in 1..Len(participating_teams) : participating_teams[a] # ""
        /\ {participating_teams[a] : a \in 1..Len(participating_teams)}
              = {team_links[k] : k \in 1..Len(team_links)} \ {""}
        /\ \A a \in 1..(Len(participating_teams) - 1) :
              FirstAt(participating_teams[a])
                  < FirstAt(participating_teams[a + 1])

C22_Witness ==
    /\ tournament.kind = "tournament"
    /\ Len(team_links) = 3
    /\ team_links[1] = "B"
    /\ team_links[3] = "B"
    /\ participating_teams = <<"B", "A">>

\* ------------------------------------------------- role table properties

\* the labels in the order of the table, each with the phrases that name it
TableOrder ==
    <<[label |-> "inactive", phrases |-> {<<"inactive">>}],
      [label |-> "substitute", phrases |-> {<<"sub">>, <<"substitute">>}],
      [label |-> "coach", phrases |-> {<<"coach">>}],
      [label |-> "assistant coach", phrases |-> {<<"assistant", "coach">>}],
      [label |-> "performance coach",
       phrases |-> {<<"performance", "coach">>}],
      [label |-> "manager", phrases |-> {<<"manager">>}],
      [label |-> "analyst", phrases |-> {<<"analyst">>}],
      [label |-> "igl", phrases |-> {<<"igl">>}]>>

\* the phrase stands, in any letter case, at place k of the text
PhraseAt(w, x, k) ==
    /\ k + Len(w) - 1 <= Len(x)
    /\ \A j \in 1..Len(w) : LowerWord(x[k + j - 1]) = w[j]

\* the n-th label of the table matches the name or the context of the link
LabelMatches(n, l) ==
    \E w \in TableOrder[n].phrases :
        \/ \E k \in 1..Len(l.name) : PhraseAt(w, l.name, k)
        \/ \E k \in 1..Len(l.name \o l.rest) : PhraseAt(w, l.name \o l.rest, k)

\* C25: the role of an entry of the archive roster is the label of the first
\* pattern of the table, in the order inactive, substitute, coach, assistant
\* coach, performance coach, manager, analyst, igl, that matches the name or
\* the context in lower case; without a match it is 'active player'
C25_FirstPatternWins ==
    version = "archive" =>
        \A i \in Entered :
            LET hits == {n \in 1..Len(TableOrder) :
                            LabelMatches(n, player_links[i])}
            IN  roster[EntryOf(i)].role =
                    IF hits = {} THEN "active player"
                    ELSE TableOrder[CHOOSE n \in hits :
                                       \A m \in hits : n <= m].label

\* an entry with two later patterns in its context, in the other order
C25_Witness ==
    /\ version = "archive"
    /\ \E i \in Entered :
          /\ player_links[i].rest = <<"igl", "manager">>
          /\ roster[EntryOf(i)].role = "manager"

\* C26: an entry whose context reads 'assistant coach' has role 'assistant
\* coach', and one whose context reads 'performance coach' has role
\* 'performance coach'
C26_TwoWordLabels ==
    \A i \in Entered :
        player_links[i].name = <<"Zeta">> =>
            /\ player_links[i].rest = <<"assistant", "coach">>
                  => roster[EntryOf(i)].role = "assistant coach"
            /\ player_links[i].rest = <<"performance", "coach">>
                  => roster[EntryOf(i)].role = "performance coach"

\* ------------------------------------------------- admission properties

\* C27: every HTTP attempt of a call of _make_request, retries included, has
\* an admission of the rate limiter of its own: a call never has made more
\* attempts than it has recorded admissions
C27_AdmissionPerAttempt ==
    \A t \in Threads :
        attempts[t] <= Recorded(t) - recAtStart[t].recorded

\* ------------------------------------------------- shared cache properties

\* C28: a get that runs while a set writes the same key does not delete the
\* entry being written: the file is there from the open of the set to its
\* dump, and when the set completes the entry holds the document it was
\* given
C28_WriteSurvivesReaders ==
    \A t \in Threads :
        /\ pc[t] = "set_dump" => files[CachePath(curl[t])].exists
        /\ pc[t] = "set_done"
              => files[CachePath(curl[t])] =
                    JsonDump(CacheData(cat[t], curl[t], cdata[t]))

====
